---- MODULE Spec2Model ----
(***************************************************************************)
(* KFMon: the watch/process supervision engine (kfmon.c), modelled as a    *)
(* state machine.  The daemon is single-threaded; its program counter `pc` *)
(* walks through main(), wait_for_target_mountpoint() and handle_events(). *)
(* The environment (the kernel's inotify instance, the mount table, the    *)
(* trigger files, the spawned companions and the content database) moves   *)
(* concurrently with it.                                                   *)
(***************************************************************************)
EXTENDS Integers, Sequences, FiniteSets, TLC

(* ------------------------------ bounds --------------------------------- *)
\* Capacity of the watch set and of the process table (kfmon.h).
WATCH_MAX == 3
\* The kernel's max_queued_events for one inotify instance.
MaxQueue == 2
\* Number of disturbances (file opens/closes, deletions, unmounts, signals and
\* failing system calls) the environment produces in one run.
MaxEnv == 4

\* sizeof(buf) of the IPC client, PIPE_BUF bytes (4096 on Linux), scaled down.
PIPE_BUF == 3
\* The commands written to the client's stdin in one run.
MaxCmds == 2

(* -------------------------- program constants -------------------------- *)
\* wait_for_target_mountpoint: "if (changes > 15)".
MaxChanges == 15

Slots == 0..(WATCH_MAX - 1)
ProcSlots == 1..(WATCH_MAX - 1)
Pids == 1..WATCH_MAX
\* Index WATCH_MAX of watch_config is the memory right behind the array.
CfgIdx == 0..WATCH_MAX

IN_OPEN == "IN_OPEN"
IN_CLOSE == "IN_CLOSE"
IN_UNMOUNT == "IN_UNMOUNT"
IN_IGNORED == "IN_IGNORED"
IN_Q_OVERFLOW == "IN_Q_OVERFLOW"

Min(S) == CHOOSE x \in S : \A y \in S : x <= y

VARIABLES
    \* ---- the daemon ----
    pc,                 \* position of the single thread
    wret,               \* caller of wait_for_target_mountpoint: "load" or "main"
    changes,            \* wait_for_target_mountpoint: unsigned int changes
    watch_count,        \* number of loaded watch configs
    watch_config,       \* [CfgIdx -> [inotify_wd, wd_was_destroyed]]
    PT,                 \* process table: [Slots -> [pid, fd, watchid]]
    fd,                 \* main: the inotify descriptor of this generation
    revents,            \* slots whose descriptor poll() reported ready
    ri,                 \* main: index i of the pipe-reaping loop
    buf,                \* handle_events: events of the batch not yet decoded
    destroyed_wd,       \* handle_events: local
    was_unmounted,      \* handle_events: local
    pending_processing, \* handle_events: static local
    open_fds,           \* descriptors open in the daemon
    status,             \* exit status once pc = "exited" ("none" before)
    \* ---- the environment ----
    mounted,            \* the target mountpoint is in /proc/mounts
    mnt_changed,        \* a mount-table change is pending on the open /proc/mounts
    exists,             \* watches whose trigger file exists on the filesystem
    kwatches,           \* watch descriptors registered in the inotify instance
    queue,              \* the instance's event queue
    kpend,              \* events an unmount in progress has yet to queue
    child,              \* [Pids -> "none" | "run" | "run_closed" | "dead_held" | "dead"]
    budget,             \* disturbances left
    touched,            \* watches 0..touched-1 had their trigger file touched
    \* ---- history ----
    rm_calls,           \* inotify_rm_watch calls of this generation
    unmount_seen,       \* an IN_UNMOUNT was decoded in this generation
    q_open,             \* oracle's answer in the last decoded event's IN_OPEN branch
    q_close,            \* ... and in its IN_CLOSE branch ("none": not queried)
    last,               \* the last decoded event of the batch: <<>> or <<[idx, mask, tracked]>>
    pend_by,            \* the watch whose IN_OPEN set pending_processing (-1: flag clear)
    pend_stale,         \* pending_processing is set, and was set in an earlier generation
    reaped,             \* watches that had a companion reaped
    swept,              \* slots the WNOHANG sweep of this wakeup freed (until the read())
    failed,             \* the system call that failed last, with its errno: <<>> or <<[call, errno]>>
    trace,              \* <<>>, or <<[reads, delivered, decoded]>>: the events read() handed over
                        \* and the ones decoded, in order (kept when handle_events is run on its own)
    \* ---- the readiness oracle on its own ----
    fx,                 \* the database and thumbnails a query meets: <<>> or <<fixture>>
    ans,                \* the last query and its result: <<>> or <<answer>>
    \* ---- qhash on its own ----
    image_id,           \* qhash: the bytes handed in (bytes, length)
    h_i,                \* qhash: unsigned int i
    h_acc,              \* qhash: unsigned int h
    wrapped,            \* history: (h << 4) + bytes[i] went past 32 bits
    dirs,               \* is_target_processed: <<>> or <<dir1, dir2>>
    \* ---- the IPC client (kfmon-ipc) and its two ends ----
    cl_pc,              \* position of the client: "poll", "woken" or "exited"
    cl_rc,              \* main: rc once it has exited ("none" before)
    cl_revents,         \* main: pfds[0].revents (stdin) and pfds[1].revents (socket)
    cin,                \* bytes pending on stdin
    cin_end,            \* stdin: "open", "hup" (a pipe whose writer is gone) or "eot"
    cmds,               \* commands written to stdin so far
    sock_out,           \* commands the daemon has received and not answered
    sock_in,            \* replies queued on the socket for the client
    sock_hup,           \* the daemon closed the connection
    owed,               \* history: commands sent whose reply was not printed
    stored,             \* history: bytes the last read_in_full stored from buf[0] on
    packet              \* history: the last packet handed to send_in_full

vars == <<pc, wret, changes, watch_count, watch_config, PT, fd, revents, ri, buf,
          destroyed_wd, was_unmounted, pending_processing, open_fds, status,
          mounted, mnt_changed, exists, kwatches, queue, kpend, child, budget, touched,
          rm_calls, unmount_seen, q_open, q_close, last, pend_by, pend_stale, reaped,
          swept, failed, trace,
          fx, ans,
          image_id, h_i, h_acc, wrapped, dirs,
          cl_pc, cl_rc, cl_revents, cin, cin_end, cmds, sock_out, sock_in, sock_hup,
          owed, stored, packet>>

daemon_vars == <<pc, wret, changes, watch_count, watch_config, PT, fd, revents, ri, buf,
                 destroyed_wd, was_unmounted, pending_processing, open_fds, status>>
env_vars == <<mounted, mnt_changed, exists, kwatches, queue, kpend, child, budget, touched>>
hist_vars == <<rm_calls, unmount_seen, q_open, q_close, last, pend_by, pend_stale, reaped,
               swept, failed, trace>>
oracle_vars == <<fx, ans>>
hash_vars == <<image_id, h_i, h_acc, wrapped, dirs>>
client_vars == <<cl_pc, cl_rc, cl_revents, cin, cin_end, cmds, sock_out, sock_in, sock_hup,
                 owed, stored, packet>>
\* What the engine never touches.
side_vars == <<oracle_vars, hash_vars, client_vars>>

(* ---------------------------------------------------------------------- *)
(* ReadinessOracle: is_target_processed()                                  *)
(* ---------------------------------------------------------------------- *)
Thumbs == {"N3_FULL", "N3_LIBRARY_FULL", "N3_LIBRARY_GRID"}

\* What the database and the filesystem answer during one call:
\*   step1   sqlite3_step of SELECT EXISTS(...): a row holding 1, a row holding 0,
\*           or no row at all (SQLITE_BUSY after the busy timeout, an error)
\*   step2   sqlite3_step of SELECT ImageID: a row, SQLITE_DONE or SQLITE_BUSY
\*   thumbs  the "<ImageID> - <suffix>.parsed" files access() finds
\*   step3   sqlite3_step of SELECT Title: a row whose title equals db_title,
\*           a row whose title differs, or no row
\*   step4   sqlite3_step of the UPDATE
\*   journal how many successive access() calls still find the -journal file
\*   fail    the call wrapped in CALL_SQLITE that does not return SQLITE_OK
\*           (should the run come to it)
\* The wrapped calls: sqlite3_open_v2, and sqlite3_prepare_v2 and
\* sqlite3_bind_text of the four statements.
\* How long the journal may stay: not at all, for one check, for 40 checks (the
\* last one the wait sits out), for 41 (the wait gives up) and for 100 (it is
\* there for good as far as the wait can tell).
JournalChecks == {0, 1, 40, 41, 100}

SqliteCalls ==
    {"open", "prepare1", "bind1", "prepare2", "bind2",
     "prepare3", "bind3", "prepare4", "bind4"}

DbAnswers ==
    [step1 : {"ROW1", "ROW0", "BUSY"}, step2 : {"ROW", "DONE", "BUSY"},
     thumbs : SUBSET Thumbs, step3 : {"SAME", "DIFF", "BUSY"},
     step4 : {"DONE", "BUSY"}, journal : JournalChecks,
     fail : {"none"} \cup SqliteCalls]

\* CALL_SQLITE (kfmon.h) on a call that failed: is_target_processed is left
\* there, answering is_processed as it stands, with the handle closed.
CALL_SQLITE(is_processed) == [result |-> is_processed, closed |-> TRUE]

\* Faulty variant of ClosesOnReturn: the give-up of the journal wait leaves
\* the function at once.
ClosesUnlessWaitedOut(sleeps) == sleeps <= 40

\* Lines 501-503: sqlite3_close(db) right before the return.
ClosesOnReturn(sleeps) == TRUE

\* Faulty variant of thumbnails_num: the library thumbnail is counted whether
\* it is there or not.
thumbnails_num_lax(e) ==
    (IF "N3_FULL" \in e.thumbs THEN 1 ELSE 0)
  + (IF "N3_LIBRARY_FULL" \in e.thumbs THEN 1 ELSE 0)
  + 1

\* Lines 398-429: three access() calls, each counting one thumbnail.
thumbnails_num(e) ==
    (IF "N3_FULL" \in e.thumbs THEN 1 ELSE 0)
  + (IF "N3_LIBRARY_FULL" \in e.thumbs THEN 1 ELSE 0)
  + (IF "N3_LIBRARY_GRID" \in e.thumbs THEN 1 ELSE 0)

\* LOG (kfmon.h) at line 491, with count++ among its arguments: the argument
\* is evaluated once, so every turn of the loop adds one to count.
LOG_count(count) == count + 1

\* Faulty variant of journal_wait: the wait goes on for as long as the journal
\* is there.
journal_wait_patient(count, left) == count + left

\* Lines 489-498: the loop sleeps while the journal is there, at most until
\* count exceeds 40.  `left` is how many more checks will find the journal.
RECURSIVE journal_wait(_, _)
journal_wait(count, left) ==
    IF left = 0 THEN count
    ELSE IF LOG_count(count) > 40 THEN LOG_count(count)
    ELSE journal_wait(LOG_count(count), left - 1)

\* Faulty variant of NeedsUpdate: the title is not compared.
NeedsUpdateAnyTitle(processed, update, step3) == processed /\ update

\* Lines 444-460: needs_update is set when the target is processed, the watch
\* has do_db_update and the SELECT Title gave a row whose title is not db_title.
NeedsUpdate(processed, update, step3) == processed /\ update /\ step3 = "DIFF"

\* The result of one call.  debug: the build defines DEBUG.
\* cfg: [do_db_update, skip_db_checks] of watch_config[watch_idx].
\* opened: how the database was opened ("none": it was not); closed: the
\* handle was closed before the return.
is_target_processed(debug, cfg, e, wait_for_db) ==
    IF debug /\ cfg.skip_db_checks
    THEN [result |-> TRUE, opened |-> "none", closed |-> FALSE, update_issued |-> FALSE,
          updated |-> FALSE, sleeps |-> 0, busy_factor |-> 0]
    ELSE
    LET update == cfg.do_db_update
        \* 360-366: the record exists and is of ContentType 6
        exists1 == e.step1 = "ROW1"
        \* 372-438: ... and all three thumbnails are there
        processed == exists1 /\ e.step2 = "ROW" /\ thumbnails_num(e) = 3
        \* 444-460
        needs_update == NeedsUpdate(processed, update, e.step3)
        \* 485-499
        sleeps == IF processed /\ wait_for_db THEN journal_wait(0, e.journal) ELSE 0
        \* the wrapped calls the run comes to when none fails
        reached == {"open", "prepare1", "bind1"}
                   \cup (IF exists1 THEN {"prepare2", "bind2"} ELSE {})
                   \cup (IF processed /\ update THEN {"prepare3", "bind3"} ELSE {})
                   \cup (IF needs_update THEN {"prepare4", "bind4"} ELSE {})
        \* is_processed when the failing call is made (374: it is false again
        \* while the thumbnails are looked for)
        so_far == e.fail \in {"prepare3", "bind3", "prepare4", "bind4"}
    IN IF e.fail \in reached
       THEN [result |-> CALL_SQLITE(so_far).result,
             opened |-> IF update THEN "rw" ELSE "ro",
             closed |-> CALL_SQLITE(so_far).closed,
             update_issued |-> FALSE,
             updated |-> FALSE,
             sleeps |-> 0,
             busy_factor |-> IF e.fail = "open" THEN 0
                             ELSE IF wait_for_db THEN 2 ELSE 1]
       ELSE [result |-> processed,
             opened |-> IF update THEN "rw" ELSE "ro",
             closed |-> ClosesOnReturn(sleeps),
             update_issued |-> needs_update,
             updated |-> needs_update /\ e.step4 = "DONE",
             sleeps |-> sleeps,
             busy_factor |-> IF wait_for_db THEN 2 ELSE 1]

(* ---------------------------------------------------------------------- *)
(* qhash                                                                   *)
(* ---------------------------------------------------------------------- *)
\* An unsigned int is 32 bits wide.  A value of that size is held as two
\* limbs of 16 bits, [hi, lo], standing for hi * 2^16 + lo.
Limb == 2^16

RECURSIVE Xor(_, _)
Xor(a, b) ==
    IF a = 0 THEN b
    ELSE IF b = 0 THEN a
    ELSE ((a + b) % 2) + 2 * Xor(a \div 2, b \div 2)

\* Line 310, right-hand side: (h << 4) + bytes[i], for h below 2^28.
ShiftAdd(h, b) ==
    LET t == (h % Limb) * 16 + b
    IN [hi |-> (h \div Limb) * 16 + t \div Limb, lo |-> t % Limb]

\* The store into the unsigned int h: the value modulo 2^32.
Uint32(w) == [hi |-> w.hi % Limb, lo |-> w.lo]

\* Faulty variant of Feedback: the top nibble is shifted by 24.
FeedbackShift24(w) == ((w.hi \div 2^12) % 16) * 2^4

\* Line 311: (h & 0xf0000000) >> 23, the top nibble moved to bits 5..8.
Feedback(w) == ((w.hi \div 2^12) % 16) * 2^5

\* Line 312: h & 0x0fffffff, as a number.
Mask28(w) == (w.hi % 2^12) * Limb + w.lo

\* Lines 310-312: one turn of the loop.
qhash_step(h, b) ==
    LET w == Uint32(ShiftAdd(h, b))
    IN Mask28([w EXCEPT !.lo = Xor(w.lo, Feedback(w))])

\* Lines 391-392.
dir1_of(hash) == hash % 256
dir2_of(hash) == (hash \div 256) % 256

(* ---------------------------------------------------------------------- *)
(* ProcessTable                                                            *)
(* ---------------------------------------------------------------------- *)
EmptyEntry == [pid |-> -1, fd |-> -1, watchid |-> -1]

\* init_process_table
init_process_table == [i \in Slots |-> EmptyEntry]

\* Faulty variant of get_next_available_pt_entry: a slot counts as free when
\* its pid is -1.
get_next_available_pt_entry_by_pid(pt) ==
    IF \E i \in Slots : pt[i].pid = -1
    THEN Min({i \in Slots : pt[i].pid = -1})
    ELSE -1

\* get_next_available_pt_entry: the first slot whose fd is -1, or -1
get_next_available_pt_entry(pt) ==
    IF \E i \in Slots : pt[i].fd = -1
    THEN Min({i \in Slots : pt[i].fd = -1})
    ELSE -1

\* add_process_to_table
add_process_to_table(pt, i, pid, pfd, watch_idx) ==
    [pt EXCEPT ![i] = [pid |-> pid, fd |-> pfd, watchid |-> watch_idx]]

\* Faulty variant of remove_process_from_table: the pid is cleared, the
\* descriptor and the watch index are left in the slot.
remove_process_from_table_pid_only(pt, i) ==
    [pt EXCEPT ![i].pid = -1]

\* remove_process_from_table (the close() is accounted for in open_fds)
remove_process_from_table(pt, i) ==
    [pt EXCEPT ![i] = EmptyEntry]

\* Faulty variant of is_watch_already_spawned: the lookup finds nothing.
is_watch_already_spawned_blind(pt, watch_idx) == FALSE

\* is_watch_already_spawned
is_watch_already_spawned(pt, watch_idx) ==
    \E i \in Slots : pt[i].watchid = watch_idx

\* get_spawn_pid_for_watch
get_spawn_pid_for_watch(pt, watch_idx) ==
    IF \E i \in Slots : pt[i].watchid = watch_idx
    THEN pt[Min({i \in Slots : pt[i].watchid = watch_idx})].pid
    ELSE -1

\* Slots holding a tracked process.
Tracked(pt) == {i \in Slots : pt[i].pid # -1}

\* A child whose exit status can be collected.
IsDead(st) == st \in {"dead", "dead_held"}
\* The write end of a child's pipe is closed: poll() reports POLLHUP.
PipeClosed(st) == st \in {"dead", "run_closed"}

\* reap_zombie_processes: waitpid(WNOHANG) on every tracked pid of slots
\* 1..WATCH_MAX-1; the ones that exited are removed from the table.
ZombieSlots(pt, ch) == {i \in ProcSlots : pt[i].pid # -1 /\ IsDead(ch[pt[i].pid])}

\* Faulty variant of reap_zombie_processes: every tracked slot is freed.
reap_zombie_processes_all(pt, ch) ==
    [i \in Slots |-> IF i \in ProcSlots THEN EmptyEntry ELSE pt[i]]

\* Faulty variant of reap_zombie_processes: the table is left as it is.
reap_zombie_processes_skip(pt, ch) == pt

reap_zombie_processes(pt, ch) ==
    [i \in Slots |-> IF i \in ZombieSlots(pt, ch) THEN EmptyEntry ELSE pt[i]]

(* ---------------------------------------------------------------------- *)
(* The kernel's side of inotify                                            *)
(* ---------------------------------------------------------------------- *)
Event(wd, mask) == [wd |-> wd, mask |-> mask]
OverflowEvent == Event(-1, {IN_Q_OVERFLOW})

\* Queueing an event: an event equal to the last queued one is merged into it;
\* a full queue takes one overflow event and drops everything after it.
Enqueue(q, e) ==
    IF Len(q) > 0 /\ q[Len(q)] = e THEN q
    ELSE IF Len(q) < MaxQueue THEN Append(q, e)
    ELSE IF \E k \in 1..Len(q) : q[k] = OverflowEvent THEN q
    ELSE Append(q, OverflowEvent)

\* Descriptor and process numbers are the kernel's choice and nothing in the
\* daemon depends on their values: the inotify descriptor is named 0, the child
\* recorded in slot i gets pid i, a child that finds no slot pid WATCH_MAX,
\* and the read end of a child's pipe is named after the child's pid.
PipeFd(pid) == pid
NewPid(slot) == IF slot < 0 THEN WATCH_MAX ELSE slot

\* Lines 700-707: the index of the first watch whose inotify_wd is the
\* event's wd; watch_count when there is none.
MatchWatch(cfg, n, wd) ==
    IF \E w \in 0..(n - 1) : cfg[w].inotify_wd = wd
    THEN Min({w \in 0..(n - 1) : cfg[w].inotify_wd = wd})
    ELSE n

(* ---------------------------------------------------------------------- *)
(* Initial state                                                           *)
(* ---------------------------------------------------------------------- *)
\* The watch configs are static storage: zero-filled until loaded.
ZeroConfig == [i \in CfgIdx |-> [inotify_wd |-> 0, wd_was_destroyed |-> FALSE]]

\* The watch descriptor a fresh inotify instance hands out for the w-th
\* inotify_add_watch call (descriptors count up from 1, one per watched file).
\* The watch configs name distinct files: two configs naming one file would
\* get one descriptor from the kernel.
Wd(w) == w + 1

\* /mnt/onboard may or may not be mounted when the daemon starts.
EngineInit ==
    /\ pc = "load_config"
    /\ wret = "load"
    /\ changes = 0
    /\ watch_count = 0
    /\ watch_config = ZeroConfig
    /\ PT = init_process_table
    /\ fd = -1
    /\ revents = {}
    /\ ri = 1
    /\ buf = <<>>
    /\ destroyed_wd = FALSE
    /\ was_unmounted = FALSE
    /\ pending_processing = FALSE
    /\ open_fds = {}
    /\ status = "none"
    /\ mounted \in BOOLEAN
    /\ mnt_changed = FALSE
    /\ exists = 0..(WATCH_MAX - 1)
    /\ kwatches = {}
    /\ queue = <<>>
    /\ kpend = <<>>
    /\ child = [p \in Pids |-> "none"]
    /\ budget = MaxEnv
    /\ touched = 0
    /\ rm_calls = {}
    /\ unmount_seen = FALSE
    /\ q_open = "none"
    /\ q_close = "none"
    /\ last = <<>>
    /\ pend_by = -1
    /\ pend_stale = FALSE
    /\ reaped = {}
    /\ swept = {}
    /\ failed = <<>>
    /\ trace = <<>>

\* No hash is being computed.
HashIdle ==
    /\ image_id = <<>>
    /\ h_i = 0
    /\ h_acc = 0
    /\ wrapped = FALSE
    /\ dirs = <<>>

\* No client is connected.
ClientIdle ==
    /\ cl_pc = "exited"
    /\ cl_rc = "none"
    /\ cl_revents = [in |-> {}, sock |-> {}]
    /\ cin = <<>>
    /\ cin_end = "open"
    /\ cmds = 0
    /\ sock_out = 0
    /\ sock_in = 0
    /\ sock_hup = FALSE
    /\ owed = 0
    /\ stored = 0
    /\ packet = <<>>

Init ==
    /\ EngineInit
    /\ fx = <<>>
    /\ ans = <<>>
    /\ HashIdle
    /\ ClientIdle

\* exit(EXIT_FAILURE): the process is gone, and its descriptors with it.
Exit(st) ==
    /\ pc' = "exited"
    /\ status' = st
    /\ open_fds' = {}

(* ---------------------------------------------------------------------- *)
(* load_config and MountWaiter                                             *)
(* ---------------------------------------------------------------------- *)
\* is_target_mounted
is_target_mounted == mounted

\* load_config, lines 210-214
LoadConfigCheck ==
    /\ pc = "load_config"
    /\ IF is_target_mounted
       THEN pc' = "load_files" /\ UNCHANGED wret
       ELSE pc' = "mw_open" /\ wret' = "load"
    /\ UNCHANGED <<changes, watch_count, watch_config, PT, fd, revents, ri, buf,
                   destroyed_wd, was_unmounted, pending_processing, open_fds, status>>
    /\ UNCHANGED env_vars
    /\ UNCHANGED hist_vars
    /\ UNCHANGED side_vars

\* The number of watches kept out of `files` watch config files (lines 251-275).
LoadedWatches(files) == IF files >= WATCH_MAX THEN WATCH_MAX ELSE files

\* load_config, lines 216-301, and main's check of its result: the config
\* directory lives on the target mountpoint.
LoadFiles ==
    /\ pc = "load_files"
    /\ \/ /\ mounted
          /\ \E files \in 0..(WATCH_MAX + 1) :
                watch_count' = LoadedWatches(files)
          /\ pc' = "inotify_init"
          /\ UNCHANGED <<open_fds, status>>
       \/ /\ Exit("failure")
          /\ UNCHANGED watch_count
    /\ UNCHANGED <<wret, changes, watch_config, PT, fd, revents, ri, buf,
                   destroyed_wd, was_unmounted, pending_processing>>
    /\ UNCHANGED env_vars
    /\ UNCHANGED hist_vars
    /\ UNCHANGED side_vars

\* Where wait_for_target_mountpoint returns to.
ReturnTo(w) == IF w = "load" THEN "load_files" ELSE "register"

\* wait_for_target_mountpoint, lines 139-145: /proc/mounts is opened; only
\* changes after the open() are reported by poll().  (mnt_changed is about the
\* descriptor of the running call: it is meaningless, and kept FALSE, outside.)
MwOpen ==
    /\ pc = "mw_open"
    /\ changes' = 0
    /\ mnt_changed' = FALSE
    /\ pc' = "mw_poll"
    /\ UNCHANGED <<wret, watch_count, watch_config, PT, fd, revents, ri, buf,
                   destroyed_wd, was_unmounted, pending_processing, open_fds, status>>
    /\ UNCHANGED <<mounted, exists, kwatches, queue, kpend, child, budget, touched>>
    /\ UNCHANGED hist_vars
    /\ UNCHANGED side_vars

\* Lines 146-163: one wakeup of poll() with POLLERR.
MwPoll ==
    /\ pc = "mw_poll"
    /\ mnt_changed
    /\ mnt_changed' = FALSE
    /\ IF is_target_mounted
       THEN pc' = ReturnTo(wret) /\ changes' = 0 /\ UNCHANGED <<open_fds, status>>
       ELSE IF changes + 1 > MaxChanges
            THEN Exit("failure") /\ changes' = changes + 1
            ELSE pc' = "mw_poll" /\ changes' = changes + 1 /\ UNCHANGED <<open_fds, status>>
    /\ UNCHANGED <<wret, watch_count, watch_config, PT, fd, revents, ri, buf,
                   destroyed_wd, was_unmounted, pending_processing>>
    /\ UNCHANGED <<mounted, exists, kwatches, queue, kpend, child, budget, touched>>
    /\ UNCHANGED hist_vars
    /\ UNCHANGED side_vars

\* Line 146: poll() returns -1 (EINTR): the while loop ends and the function
\* returns.
MwPollInterrupted ==
    /\ pc = "mw_poll"
    /\ pc' = ReturnTo(wret)
    /\ changes' = 0
    /\ mnt_changed' = FALSE
    /\ UNCHANGED <<wret, watch_count, watch_config, PT, fd, revents, ri, buf,
                   destroyed_wd, was_unmounted, pending_processing, open_fds, status>>
    /\ UNCHANGED <<mounted, exists, kwatches, queue, kpend, child, budget, touched>>
    /\ UNCHANGED hist_vars
    /\ UNCHANGED side_vars

(* ---------------------------------------------------------------------- *)
(* main: one generation                                                    *)
(* ---------------------------------------------------------------------- *)
\* Lines 851-859: inotify_init1
InotifyInit ==
    /\ pc = "inotify_init"
    /\ fd' = 0
    /\ open_fds' = open_fds \cup {fd'}
    /\ queue' = <<>>
    /\ kwatches' = {}
    /\ kpend' = <<>>
    /\ pc' = "mount_check"
    /\ rm_calls' = {}
    /\ unmount_seen' = FALSE
    /\ pend_stale' = pending_processing
    /\ UNCHANGED <<wret, changes, watch_count, watch_config, PT, revents, ri, buf,
                   destroyed_wd, was_unmounted, pending_processing, status>>
    /\ UNCHANGED <<mounted, mnt_changed, exists, child, budget, touched>>
    /\ UNCHANGED <<q_open, q_close, last, pend_by, reaped, swept, failed, trace>>
    /\ UNCHANGED side_vars

\* Lines 861-866
MountCheck ==
    /\ pc = "mount_check"
    /\ IF is_target_mounted
       THEN pc' = "register" /\ UNCHANGED wret
       ELSE pc' = "mw_open" /\ wret' = "main"
    /\ UNCHANGED <<changes, watch_count, watch_config, PT, fd, revents, ri, buf,
                   destroyed_wd, was_unmounted, pending_processing, open_fds, status>>
    /\ UNCHANGED env_vars
    /\ UNCHANGED hist_vars
    /\ UNCHANGED side_vars

\* Faulty variant of CanWatch: a missing file goes unnoticed.
CanWatchIfMounted(w) == mounted

\* inotify_add_watch succeeds on a file that is there.
CanWatch(w) == mounted /\ w \in exists

\* Faulty variant of AddedWatches: the loop starts at index 1.
AddedWatchesFromOne(n) == 1..(n - 1)

\* Line 869: the watches the registration loop calls inotify_add_watch for.
AddedWatches(n) == 0..(n - 1)

\* Faulty variant of HijackSlotZero: the table is initialised anew in every
\* generation.
HijackFreshTable(pt, f) == [init_process_table EXCEPT ![0].fd = f]

\* Lines 880-883: slot 0 takes the inotify descriptor of the generation; the
\* other slots are as the generation before left them (init_process_table,
\* line 847, is called before the loop of line 850).
HijackSlotZero(pt, f) == [pt EXCEPT ![0].fd = f]

\* Lines 868-884: the registration pass, then slot 0 takes the inotify fd.
Register ==
    /\ pc = "register"
    /\ IF \A w \in AddedWatches(watch_count) : CanWatch(w)
       THEN /\ watch_config' =
                 [i \in CfgIdx |->
                    IF i \in AddedWatches(watch_count)
                    THEN [watch_config[i] EXCEPT !.inotify_wd = Wd(i)]
                    ELSE watch_config[i]]
            /\ kwatches' = {Wd(w) : w \in AddedWatches(watch_count)}
            /\ PT' = HijackSlotZero(PT, fd)
            /\ pc' = "poll"
            /\ UNCHANGED <<open_fds, status>>
       ELSE /\ Exit("failure")
            /\ UNCHANGED <<watch_config, kwatches, PT>>
    /\ UNCHANGED <<wret, changes, watch_count, fd, revents, ri, buf,
                   destroyed_wd, was_unmounted, pending_processing>>
    /\ UNCHANGED <<mounted, mnt_changed, exists, queue, kpend, child, budget, touched>>
    /\ UNCHANGED hist_vars
    /\ UNCHANGED side_vars

\* What poll() reports: POLLIN on slot 0 when events are queued, POLLHUP on a
\* pipe whose write end is closed.
ReadySlots ==
    {i \in Slots : \/ i = 0 /\ queue # <<>>
                   \/ i # 0 /\ PT[i].fd # -1 /\ PipeClosed(child[PT[i].pid])}

\* Lines 889-898: poll() returns with at least one descriptor ready.
Poll ==
    /\ pc = "poll"
    /\ ReadySlots # {}
    /\ revents' = ReadySlots
    /\ ri' = 1
    /\ pc' = "reap"
    /\ UNCHANGED <<wret, changes, watch_count, watch_config, PT, fd, buf,
                   destroyed_wd, was_unmounted, pending_processing, open_fds, status>>
    /\ UNCHANGED env_vars
    /\ failed' = <<>>
    /\ UNCHANGED <<rm_calls, unmount_seen, q_open, q_close, last, pend_by, pend_stale, reaped,
                   swept, trace>>
    /\ UNCHANGED side_vars

\* The slots the loop of line 900 has yet to reap.
ToReap == {i \in ProcSlots : i >= ri /\ i \in revents}

\* Lines 900-926: the next signalled slot; waitpid() blocks until the child
\* is dead.
ReapPipe ==
    /\ pc = "reap"
    /\ ToReap # {}
    /\ LET i == Min(ToReap)
           pid == PT[i].pid
       IN /\ IsDead(child[pid])
          /\ child' = [child EXCEPT ![pid] = "none"]
          /\ PT' = remove_process_from_table(PT, i)
          /\ open_fds' = open_fds \ {PT[i].fd}
          /\ reaped' = reaped \cup {PT[i].watchid}
          /\ ri' = i + 1
    /\ UNCHANGED <<pc, wret, changes, watch_count, watch_config, fd, revents, buf,
                   destroyed_wd, was_unmounted, pending_processing, status>>
    /\ UNCHANGED <<mounted, mnt_changed, exists, kwatches, queue, kpend, budget, touched>>
    /\ UNCHANGED <<rm_calls, unmount_seen, q_open, q_close, last, pend_by, pend_stale, swept,
                   failed, trace>>
    /\ UNCHANGED side_vars

\* Lines 927-938: the loop of line 900 is through.  With POLLIN on slot 0 the
\* non-blocking sweep runs and handle_events is entered.
ReapDone ==
    /\ pc = "reap"
    /\ ToReap = {}
    /\ IF 0 \in revents
       THEN /\ PT' = reap_zombie_processes(PT, child)
            /\ child' = [p \in Pids |->
                           IF \E i \in ZombieSlots(PT, child) : PT[i].pid = p
                           THEN "none" ELSE child[p]]
            /\ open_fds' = open_fds \ {PT[i].fd : i \in ZombieSlots(PT, child)}
            /\ reaped' = reaped \cup {PT[i].watchid : i \in ZombieSlots(PT, child)}
            /\ swept' = ZombieSlots(PT, child)
            /\ destroyed_wd' = FALSE
            /\ was_unmounted' = FALSE
            /\ pc' = "read"
       ELSE /\ pc' = "poll"
            /\ UNCHANGED <<PT, child, open_fds, reaped, swept, destroyed_wd, was_unmounted>>
    /\ ri' = 1
    /\ revents' = {}
    /\ UNCHANGED <<wret, changes, watch_count, watch_config, fd, buf,
                   pending_processing, status>>
    /\ UNCHANGED <<mounted, mnt_changed, exists, kwatches, queue, kpend, budget, touched>>
    /\ UNCHANGED <<rm_calls, unmount_seen, q_open, q_close, last, pend_by, pend_stale, failed, trace>>
    /\ UNCHANGED side_vars

(* ---------------------------------------------------------------------- *)
(* handle_events                                                           *)
(* ---------------------------------------------------------------------- *)
\* The watch configs of the engine: do_db_update and skip_db_checks are off
\* (the shipped configuration), in a build without DEBUG.
DefaultCfg == [do_db_update |-> FALSE, skip_db_checks |-> FALSE]

\* The states of database and thumbnails a query of the engine may meet: the
\* database locked, no record, a record with two thumbnails, a record with all.
EngineDb ==
    {e \in DbAnswers :
        /\ e.step3 = "SAME" /\ e.step4 = "DONE" /\ e.journal = 0 /\ e.fail = "none"
        /\ \/ e.step1 = "BUSY" /\ e.step2 = "BUSY" /\ e.thumbs = {}
           \/ e.step1 = "ROW0" /\ e.step2 = "DONE" /\ e.thumbs = {}
           \/ e.step1 = "ROW1" /\ e.step2 = "ROW" /\ e.thumbs = Thumbs \ {"N3_LIBRARY_FULL"}
           \/ e.step1 = "ROW1" /\ e.step2 = "ROW" /\ e.thumbs = Thumbs}

\* Faulty variant of OpenWait: the IN_OPEN branch waits as the IN_CLOSE one.
OpenWaitLong == TRUE

\* The wait_for_db argument of the call in the IN_OPEN branch (line 719) and
\* of the one in the IN_CLOSE branch (line 736).
OpenWait == FALSE
CloseWait == TRUE

\* The answers is_target_processed can give on an IN_OPEN and on an IN_CLOSE.
ReadyOnOpen == {is_target_processed(FALSE, DefaultCfg, e, OpenWait).result : e \in EngineDb}
ReadyOnClose == {is_target_processed(FALSE, DefaultCfg, e, CloseWait).result : e \in EngineDb}

\* watch_config[watch_idx].inotify_wd; with watch_idx = WATCH_MAX the read is
\* behind the array and yields whatever is there.
ReadWd(cfg, idx) ==
    IF idx < WATCH_MAX THEN {cfg[idx].inotify_wd} ELSE 0..WATCH_MAX

Verdict(asked, answer) ==
    IF ~asked THEN "none" ELSE IF answer THEN "ready" ELSE "notready"

\* Lines 681-692: one read() of the inotify descriptor.  It takes every queued
\* event (the queue is far shorter than the 4096-byte buffer); with nothing
\* queued it fails with EAGAIN and handle_events returns destroyed_wd.
ReadBatch ==
    /\ pc = "read"
    /\ IF queue = <<>>
       THEN /\ pc' = "poll"
            /\ destroyed_wd' = FALSE
            /\ was_unmounted' = FALSE
            /\ UNCHANGED <<buf, queue>>
       ELSE /\ pc' = "event"
            /\ buf' = queue
            /\ queue' = <<>>
            /\ UNCHANGED <<destroyed_wd, was_unmounted>>
    /\ UNCHANGED <<wret, changes, watch_count, watch_config, PT, fd, revents, ri,
                   pending_processing, open_fds, status>>
    /\ UNCHANGED <<mounted, mnt_changed, exists, kwatches, kpend, child, budget, touched>>
    /\ swept' = {}
    /\ trace' = IF trace = <<>> \/ queue = <<>> THEN trace
                ELSE <<[trace[1] EXCEPT !.reads = @ + 1, !.delivered = @ \o queue]>>
    /\ UNCHANGED <<rm_calls, unmount_seen, q_open, q_close, last, pend_by, pend_stale, reaped,
                   failed>>
    /\ UNCHANGED side_vars

\* Faulty variant of OpenBranch: the flag is set but never cleared.
OpenBranchSticky(pending, mask, tracked, ready) ==
    IF IN_OPEN \in mask /\ ~tracked /\ ~ready THEN TRUE ELSE pending

\* Faulty variant of OpenBranch: the flag is written for a tracked watch too.
OpenBranchAnyWatch(pending, mask, tracked, ready) ==
    IF IN_OPEN \in mask THEN ~ready ELSE pending

\* pending_processing after the IN_OPEN branch (lines 714-728).
OpenBranch(pending, mask, tracked, ready) ==
    IF IN_OPEN \in mask /\ ~tracked THEN ~ready ELSE pending

\* Faulty variant of FlagAtClose: the IN_CLOSE branch sees the flag as it was
\* before the event.
FlagAtCloseStale(before, after_open) == before

\* Lines 714-729: the IN_OPEN branch comes first, so the IN_CLOSE branch of
\* the same event reads the flag the IN_OPEN branch has left.
FlagAtClose(before, after_open) == after_open

\* Faulty variant of CloseAsks: the oracle is asked whatever the flag says.
CloseAsksUnflagged(pending, mask, tracked) == IN_CLOSE \in mask /\ ~tracked

\* The IN_CLOSE branch calls is_target_processed (lines 729-736): the flag
\* is looked at first, and the call is made only when it is clear.
CloseAsks(pending, mask, tracked) == IN_CLOSE \in mask /\ ~tracked /\ ~pending

\* Faulty variant of CloseSpawns: the pending flag is not looked at.
CloseSpawnsUnflagged(pending, mask, tracked, ready) ==
    IN_CLOSE \in mask /\ ~tracked /\ ready

\* The IN_CLOSE branch calls spawn() (lines 729-748).
CloseSpawns(pending, mask, tracked, ready) ==
    IN_CLOSE \in mask /\ ~tracked /\ ~pending /\ ready

\* Faulty variant of BreaksLoop: an unmount event ends the generation as well.
BreaksLoopOnUnmount(mask) ==
    IN_IGNORED \in mask \/ IN_Q_OVERFLOW \in mask \/ IN_UNMOUNT \in mask

\* Lines 749-775: the event bits whose branch sets destroyed_wd (the branch of
\* IN_UNMOUNT, lines 749-753, sets was_unmounted only).
BreaksLoop(mask) == IN_IGNORED \in mask \/ IN_Q_OVERFLOW \in mask

\* Lines 695-775: one event of the batch.
DecodeEvent ==
    /\ pc = "event"
    /\ buf # <<>>
    /\ LET ev == Head(buf)
           idx == MatchWatch(watch_config, watch_count, ev.wd)
           tracked == is_watch_already_spawned(PT, idx)
       IN \E a_open \in ReadyOnOpen, a_close \in ReadyOnClose,
             rm_wd \in ReadWd(watch_config, idx) :
          LET ask_open == IN_OPEN \in ev.mask /\ ~tracked
              pend1 == OpenBranch(pending_processing, ev.mask, tracked, a_open)
              seen == FlagAtClose(pending_processing, pend1)
              ask_close == CloseAsks(seen, ev.mask, tracked)
              do_spawn == CloseSpawns(seen, ev.mask, tracked, a_close)
              \* spawn(), lines 547-603
              slot == get_next_available_pt_entry(PT)
              pid == NewPid(slot)
              p0 == PipeFd(pid)
              unmount == IN_UNMOUNT \in ev.mask
              ignored == IN_IGNORED \in ev.mask
              overflow == IN_Q_OVERFLOW \in ev.mask
          IN /\ pending_processing' = pend1
             /\ q_open' = Verdict(ask_open, a_open)
             /\ q_close' = Verdict(ask_close, a_close)
             /\ last' = <<[idx |-> idx, mask |-> ev.mask, tracked |-> tracked,
                           waits |-> (IF ask_open THEN {OpenWait} ELSE {})
                                     \cup (IF ask_close THEN {CloseWait} ELSE {})]>>
             /\ pend_by' = IF ask_open THEN (IF a_open THEN -1 ELSE idx) ELSE pend_by
             /\ pend_stale' = IF ask_open THEN FALSE ELSE pend_stale
             /\ IF do_spawn /\ slot < 0
                THEN \* no free slot: fatal, the forked child is left behind
                     /\ child' = [child EXCEPT ![pid] = "run"]
                     /\ Exit("failure")
                     /\ UNCHANGED <<PT, buf, destroyed_wd, was_unmounted, watch_config,
                                    kwatches, queue, rm_calls, unmount_seen, trace>>
                ELSE /\ IF do_spawn
                        THEN /\ child' = [child EXCEPT ![pid] = "run"]
                             /\ PT' = add_process_to_table(PT, slot, pid, p0, idx)
                             /\ open_fds' = open_fds \cup {p0}
                        ELSE UNCHANGED <<child, PT, open_fds>>
                     /\ was_unmounted' = (was_unmounted \/ unmount)
                     /\ unmount_seen' = (unmount_seen \/ unmount)
                     /\ destroyed_wd' = (destroyed_wd \/ BreaksLoop(ev.mask))
                     /\ watch_config' =
                          IF ignored \/ overflow
                          THEN [watch_config EXCEPT ![idx].wd_was_destroyed = TRUE]
                          ELSE watch_config
                     /\ IF overflow
                        THEN /\ kwatches' = kwatches \ {rm_wd}
                             /\ queue' = IF rm_wd \in kwatches
                                         THEN Enqueue(queue, Event(rm_wd, {IN_IGNORED}))
                                         ELSE queue
                             /\ rm_calls' = rm_calls \cup
                                  {[idx |-> idx, wd |-> rm_wd, by |-> "overflow",
                                    after_unmount |-> unmount_seen']}
                        ELSE UNCHANGED <<kwatches, queue, rm_calls>>
                     /\ buf' = Tail(buf)
                     /\ trace' = IF trace = <<>> THEN trace
                                 ELSE <<[trace[1] EXCEPT !.decoded = Append(@, ev)]>>
                     /\ UNCHANGED <<pc, status>>
    /\ UNCHANGED <<wret, changes, watch_count, fd, revents, ri>>
    /\ UNCHANGED <<mounted, mnt_changed, exists, kpend, budget, touched>>
    /\ UNCHANGED <<reaped, swept, failed>>
    /\ UNCHANGED side_vars

\* Faulty variant of CleanupRemoves: the destroyed watches are removed too.
CleanupRemovesAll(cfg, n, unmounted) ==
    {w \in 0..(n - 1) : ~unmounted}

\* Lines 780-795: the watches the clean-up loop hands to inotify_rm_watch.
CleanupRemoves(cfg, n, unmounted) ==
    {w \in 0..(n - 1) : ~cfg[w].wd_was_destroyed /\ ~unmounted}

\* Faulty variant of ResetDestroyed: the flags are left as they are.
ResetDestroyedNever(cfg, n) == cfg

\* Lines 780-795, the else branch: the clean-up loop clears the flag of every
\* watch that has it set.
ResetDestroyed(cfg, n) ==
    [i \in CfgIdx |->
        IF i < n THEN [cfg[i] EXCEPT !.wd_was_destroyed = FALSE] ELSE cfg[i]]

\* Lines 777-801 and 933-943: the batch is through.  If a watch was destroyed,
\* the other watches are removed, the flags reset, handle_events returns true
\* and main closes the inotify descriptor; otherwise the next read() follows.
EndBatch ==
    /\ pc = "event"
    /\ buf = <<>>
    /\ IF destroyed_wd
       THEN LET rm == CleanupRemoves(watch_config, watch_count, was_unmounted)
            IN /\ rm_calls' = rm_calls \cup
                    {[idx |-> w, wd |-> watch_config[w].inotify_wd, by |-> "cleanup",
                      after_unmount |-> unmount_seen] : w \in rm}
               /\ watch_config' = ResetDestroyed(watch_config, watch_count)
               /\ open_fds' = open_fds \ {fd}
               /\ kwatches' = {}
               /\ queue' = <<>>
               /\ kpend' = <<>>
               /\ pc' = "inotify_init"
               /\ destroyed_wd' = FALSE
               /\ was_unmounted' = FALSE
       ELSE /\ pc' = "read"
            /\ UNCHANGED <<rm_calls, watch_config, open_fds, kwatches, queue, kpend,
                           destroyed_wd, was_unmounted>>
    /\ q_open' = "none"
    /\ q_close' = "none"
    /\ last' = <<>>
    /\ UNCHANGED <<wret, changes, watch_count, PT, fd, revents, ri, buf,
                   pending_processing, status>>
    /\ UNCHANGED <<mounted, mnt_changed, exists, child, budget, touched>>
    /\ UNCHANGED <<unmount_seen, pend_by, pend_stale, reaped, swept, failed, trace>>
    /\ UNCHANGED side_vars

(* ---------------------------------------------------------------------- *)
(* The environment                                                         *)
(* ---------------------------------------------------------------------- *)
\* The daemon looks at the environment at a few points only (the mount table
\* before and during the mount wait, the trigger files when registering, the
\* queue and the pipes in poll(), the children in waitpid(), the queue in
\* read()); a move of the environment in between has the effect of the same
\* move at the next such point, which is where the moves are taken.
Watching == pc \in {"poll", "read"}
Polling == pc = "poll"
\* The daemon is blocked in the waitpid() of line 910 on child p.
WaitingFor(p) == pc = "reap" /\ ToReap # {} /\ PT[Min(ToReap)].pid = p

\* The watches are interchangeable (nothing in the daemon depends on which of
\* them an event is for), so of the runs that differ only in the names of the
\* watches one is kept: the one that touches the trigger files in index order.
Touch(t, w) == IF w + 1 > t THEN w + 1 ELSE t

\* Something opens or closes the trigger file of watch w.
FileEvent(w, bit) ==
    /\ Watching
    /\ budget > 0
    /\ kpend = <<>>
    /\ mounted
    /\ w \in exists
    /\ Wd(w) \in kwatches
    /\ w <= touched
    /\ touched' = Touch(touched, w)
    /\ queue' = Enqueue(queue, Event(Wd(w), {bit}))
    /\ budget' = budget - 1
    /\ UNCHANGED daemon_vars
    /\ UNCHANGED <<mounted, mnt_changed, exists, kwatches, kpend, child>>
    /\ UNCHANGED hist_vars
    /\ UNCHANGED side_vars

EnvOpen == \E w \in 0..(watch_count - 1) : FileEvent(w, IN_OPEN)

EnvClose == \E w \in 0..(watch_count - 1) : FileEvent(w, IN_CLOSE)

\* The trigger file of watch w is deleted or replaced: its watch is removed
\* by the kernel, which queues IN_IGNORED.
EnvDelete ==
    \E w \in 0..(watch_count - 1) :
        /\ (Watching \/ pc = "register")
        /\ budget > 0
        /\ kpend = <<>>
        /\ mounted
        /\ w \in exists
        /\ w <= touched
        /\ touched' = Touch(touched, w)
        /\ exists' = exists \ {w}
        /\ IF Wd(w) \in kwatches
           THEN /\ kwatches' = kwatches \ {Wd(w)}
                /\ queue' = Enqueue(queue, Event(Wd(w), {IN_IGNORED}))
           ELSE UNCHANGED <<kwatches, queue>>
        /\ budget' = budget - 1
        /\ UNCHANGED daemon_vars
        /\ UNCHANGED <<mounted, mnt_changed, kpend, child>>
        /\ UNCHANGED hist_vars
        /\ UNCHANGED side_vars

\* The trigger file of watch w is put (back) in place.
EnvCreate ==
    \E w \in 0..(watch_count - 1) :
        /\ pc = "register"
        /\ mounted
        /\ w \notin exists
        /\ exists' = exists \cup {w}
        /\ UNCHANGED daemon_vars
        /\ UNCHANGED <<mounted, mnt_changed, kwatches, queue, kpend, child, budget, touched>>
        /\ UNCHANGED hist_vars
        /\ UNCHANGED side_vars

\* The events an unmount queues: IN_UNMOUNT, then IN_IGNORED, watch by watch.
RECURSIVE UnmountEvents(_)
UnmountEvents(wds) ==
    IF wds = {} THEN <<>>
    ELSE LET w == Min(wds)
         IN <<Event(w, {IN_UNMOUNT}), Event(w, {IN_IGNORED})>> \o UnmountEvents(wds \ {w})

\* A change of the mount table is seen by a poll() on an already open
\* /proc/mounts only.
MountTableChanged == IF pc = "mw_poll" THEN TRUE ELSE mnt_changed

EnvUnmount ==
    /\ (Watching \/ pc = "register")
    /\ budget > 0
    /\ kpend = <<>>
    /\ mounted
    /\ mounted' = FALSE
    /\ mnt_changed' = MountTableChanged
    /\ kpend' = UnmountEvents(kwatches)
    /\ budget' = budget - 1
    /\ UNCHANGED touched
    /\ UNCHANGED daemon_vars
    /\ UNCHANGED <<exists, kwatches, queue, child>>
    /\ UNCHANGED hist_vars
    /\ UNCHANGED side_vars

\* The kernel queues the next event of the unmount.
KernelDeliver ==
    /\ Watching
    /\ kpend # <<>>
    /\ queue' = Enqueue(queue, Head(kpend))
    /\ kwatches' = IF IN_IGNORED \in Head(kpend).mask
                   THEN kwatches \ {Head(kpend).wd} ELSE kwatches
    /\ kpend' = Tail(kpend)
    /\ UNCHANGED daemon_vars
    /\ UNCHANGED <<mounted, mnt_changed, exists, child, budget, touched>>
    /\ UNCHANGED hist_vars
    /\ UNCHANGED side_vars

EnvMount ==
    /\ pc \in {"mount_check", "mw_open", "mw_poll"}
    /\ kpend = <<>>
    /\ ~mounted
    /\ mounted' = TRUE
    /\ mnt_changed' = MountTableChanged
    /\ UNCHANGED daemon_vars
    /\ UNCHANGED <<exists, kwatches, queue, kpend, child, budget, touched>>
    /\ UNCHANGED hist_vars
    /\ UNCHANGED side_vars

\* Some other filesystem is mounted or unmounted while the daemon waits.
EnvMountChange ==
    /\ pc = "mw_poll"
    /\ ~mnt_changed
    /\ mnt_changed' = TRUE
    /\ UNCHANGED daemon_vars
    /\ UNCHANGED <<mounted, exists, kwatches, queue, kpend, child, budget, touched>>
    /\ UNCHANGED hist_vars
    /\ UNCHANGED side_vars

\* A companion exits; the write end of its pipe closes with it unless one of
\* its own children inherited it.
ChildExit ==
    \E p \in Pids :
        /\ (Polling \/ WaitingFor(p))
        /\ \/ child[p] = "run" /\ \E st \in {"dead", "dead_held"} :
                                     child' = [child EXCEPT ![p] = st]
           \/ child[p] = "run_closed" /\ child' = [child EXCEPT ![p] = "dead"]
        /\ UNCHANGED daemon_vars
        /\ UNCHANGED <<mounted, mnt_changed, exists, kwatches, queue, kpend, budget, touched>>
        /\ UNCHANGED hist_vars
        /\ UNCHANGED side_vars

\* A companion closes the inherited pipe while it lives on, or the last
\* holder of a dead companion's pipe goes away.
PipeCloses ==
    \E p \in Pids :
        /\ Polling
        /\ \/ child[p] = "run" /\ child' = [child EXCEPT ![p] = "run_closed"]
           \/ child[p] = "dead_held" /\ child' = [child EXCEPT ![p] = "dead"]
        /\ UNCHANGED daemon_vars
        /\ UNCHANGED <<mounted, mnt_changed, exists, kwatches, queue, kpend, budget, touched>>
        /\ UNCHANGED hist_vars
        /\ UNCHANGED side_vars

(* ---------------------------------------------------------------------- *)
(* System calls that fail                                                  *)
(* ---------------------------------------------------------------------- *)
Failure(call, errno) == <<[call |-> call, errno |-> errno]>>

\* Faulty variant of PollRetries: every failure of poll() is retried.
PollRetriesAlways(errno) == TRUE

\* Lines 890-893: poll() returned -1; with EINTR the loop goes round again.
PollRetries(errno) == errno = "EINTR"

\* Lines 682 and 690: read() returned -1; EAGAIN ends the loop of
\* handle_events, anything else is fatal.
ReadEnds(errno) == errno = "EAGAIN"

\* Lines 889-896: poll() fails, interrupted by a signal or for want of memory.
\* (An interruption right after an interruption is the same interruption.)
PollFails ==
    /\ pc = "poll"
    /\ failed = <<>>
    /\ \E errno \in {"EINTR", "ENOMEM"} :
          /\ failed' = Failure("poll", errno)
          /\ IF PollRetries(errno)
             THEN UNCHANGED <<pc, open_fds, status>>
             ELSE Exit("failure")
    /\ UNCHANGED <<wret, changes, watch_count, watch_config, PT, fd, revents, ri, buf,
                   destroyed_wd, was_unmounted, pending_processing>>
    /\ budget > 0
    /\ budget' = budget - 1
    /\ UNCHANGED <<mounted, mnt_changed, exists, kwatches, queue, kpend, child, touched>>
    /\ UNCHANGED <<rm_calls, unmount_seen, q_open, q_close, last, pend_by, pend_stale, reaped,
                   swept, trace>>
    /\ UNCHANGED side_vars

\* Lines 681-685: read() fails with something else than EAGAIN: a signal
\* interrupts it.
ReadFails ==
    /\ pc = "read"
    /\ \E errno \in {"EINTR"} :
          /\ failed' = Failure("read", errno)
          /\ IF ReadEnds(errno)
             THEN pc' = "poll" /\ UNCHANGED <<open_fds, status>>
             ELSE Exit("failure")
    /\ UNCHANGED <<wret, changes, watch_count, watch_config, PT, fd, revents, ri, buf,
                   destroyed_wd, was_unmounted, pending_processing>>
    /\ budget > 0
    /\ budget' = budget - 1
    /\ UNCHANGED <<mounted, mnt_changed, exists, kwatches, queue, kpend, child, touched>>
    /\ UNCHANGED <<rm_calls, unmount_seen, q_open, q_close, last, pend_by, pend_stale, reaped,
                   swept, trace>>
    /\ UNCHANGED side_vars

\* Lines 855-859: inotify_init1 fails (no descriptor or no instance left).
InotifyInitFails ==
    /\ pc = "inotify_init"
    /\ failed' = Failure("inotify_init1", "EMFILE")
    /\ Exit("failure")
    /\ UNCHANGED <<wret, changes, watch_count, watch_config, PT, fd, revents, ri, buf,
                   destroyed_wd, was_unmounted, pending_processing>>
    /\ budget > 0
    /\ budget' = budget - 1
    /\ UNCHANGED <<mounted, mnt_changed, exists, kwatches, queue, kpend, child, touched>>
    /\ UNCHANGED <<rm_calls, unmount_seen, q_open, q_close, last, pend_by, pend_stale, reaped,
                   swept, trace>>
    /\ UNCHANGED side_vars

(* ---------------------------------------------------------------------- *)
(* Specification                                                           *)
(* ---------------------------------------------------------------------- *)
Daemon ==
    \/ LoadConfigCheck \/ LoadFiles \/ MwOpen \/ MwPoll
    \/ InotifyInit \/ MountCheck \/ Register
    \/ Poll \/ ReapPipe \/ ReapDone
    \/ ReadBatch \/ DecodeEvent \/ EndBatch

Environment ==
    \/ EnvOpen \/ EnvClose \/ EnvDelete \/ EnvCreate
    \/ EnvUnmount \/ KernelDeliver \/ EnvMount \/ EnvMountChange
    \/ ChildExit \/ PipeCloses \/ MwPollInterrupted
    \/ PollFails \/ ReadFails \/ InotifyInitFails

Next == Daemon \/ Environment

Spec == Init /\ [][Next]_vars

\* The daemon is one thread that the scheduler keeps running: a step of it
\* that stays possible is eventually taken.  Nothing is assumed of the
\* environment.
SpecFair == Spec /\ WF_vars(Daemon)

(* ---------------------------------------------------------------------- *)
(* The readiness oracle, called on its own                                 *)
(* ---------------------------------------------------------------------- *)
\* What a call finds: the build (DEBUG or not), the watch's two options, whether
\* the content table holds the trigger's record with ContentType 6, and the
\* ".parsed" files on disk.  refused: a call already answered false here while
\* the record was there and a thumbnail was missing.  locked: a call already
\* met a locked database here in one of its two readiness queries.
Fixtures ==
    [debug : BOOLEAN, skip_db_checks : BOOLEAN, do_db_update : BOOLEAN,
     record : BOOLEAN, thumbs : SUBSET Thumbs, refused : BOOLEAN, locked : BOOLEAN]

\* What the database answers when it holds (or not) the record: each step
\* may also run into the busy timeout, the title may differ from the configured
\* one when the watch asks for the update, the journal may be there, or one of
\* the wrapped calls may fail (the calls of the third and fourth statement are
\* made with do_db_update only).
FailsFor(f) ==
    IF f.do_db_update THEN SqliteCalls
    ELSE SqliteCalls \ {"prepare3", "bind3", "prepare4", "bind4"}

StepsFor(f) ==
    [step1 : {IF f.record THEN "ROW1" ELSE "ROW0", "BUSY"},
     step2 : {IF f.record THEN "ROW" ELSE "DONE", "BUSY"},
     thumbs : {f.thumbs},
     step3 : IF f.do_db_update THEN {"SAME", "DIFF", "BUSY"} ELSE {"SAME"},
     step4 : IF f.do_db_update THEN {"DONE", "BUSY"} ELSE {"DONE"}]

AnswersFor(f) ==
    {[step1 |-> t.step1, step2 |-> t.step2, thumbs |-> t.thumbs, step3 |-> t.step3,
      step4 |-> t.step4, journal |-> j, fail |-> "none"] :
         t \in StepsFor(f), j \in JournalChecks}
    \cup
    {[step1 |-> t.step1, step2 |-> t.step2, thumbs |-> t.thumbs, step3 |-> t.step3,
      step4 |-> t.step4, journal |-> 0, fail |-> c] :
         t \in StepsFor(f), c \in FailsFor(f)}

InitReady ==
    /\ EngineInit
    /\ fx \in {<<f>> : f \in {g \in Fixtures : ~g.refused /\ ~g.locked}}
    /\ ans = <<>>
    /\ HashIdle
    /\ ClientIdle

\* The sqlite3_step of the first or of the second SELECT (lines 360, 382) ran
\* into the busy timeout: the database is locked.
LockedQuery(e) ==
    e.fail = "none" /\ (e.step1 = "BUSY" \/ (e.step1 = "ROW1" /\ e.step2 = "BUSY"))

\* handle_events calls is_target_processed for an untracked watch: with
\* wait_for_db false from the IN_OPEN branch (line 719), which writes the
\* pending flag, and with wait_for_db true from the IN_CLOSE branch (line 736),
\* which asks only when the flag is clear and spawns on a true answer.
QueryReady ==
    /\ fx # <<>>
    /\ ans = <<>>
    /\ \E wait_for_db \in BOOLEAN, e \in AnswersFor(fx[1]) :
          LET f == fx[1]
              cfg == [do_db_update |-> f.do_db_update, skip_db_checks |-> f.skip_db_checks]
              out == is_target_processed(f.debug, cfg, e, wait_for_db)
              mask == IF wait_for_db THEN {IN_CLOSE} ELSE {IN_OPEN}
              skipped == f.debug /\ f.skip_db_checks
          IN /\ wait_for_db => CloseAsks(pending_processing, mask, FALSE)
             /\ pending_processing' = OpenBranch(pending_processing, mask, FALSE, out.result)
             /\ ans' = <<[wait_for_db |-> wait_for_db, e |-> e, out |-> out,
                          spawns |-> CloseSpawns(pending_processing, mask, FALSE, out.result)]>>
             /\ fx' = <<[f EXCEPT !.refused =
                            @ \/ (~out.result /\ f.record /\ f.thumbs # Thumbs),
                                  !.locked = @ \/ (LockedQuery(e) /\ ~skipped)]>>
    /\ UNCHANGED <<pc, wret, changes, watch_count, watch_config, PT, fd, revents, ri, buf,
                   destroyed_wd, was_unmounted, open_fds, status>>
    /\ UNCHANGED <<env_vars, hist_vars, hash_vars, client_vars>>

\* Nickel writes one more thumbnail of the trigger.
ThumbnailAppears ==
    /\ fx # <<>>
    /\ \E t \in Thumbs \ fx[1].thumbs :
          fx' = <<[fx[1] EXCEPT !.thumbs = @ \cup {t}]>>
    /\ ans' = <<>>
    /\ UNCHANGED <<daemon_vars, env_vars, hist_vars, hash_vars, client_vars>>

\* Nickel imports the trigger: its record enters the content table.
RecordAppears ==
    /\ fx # <<>>
    /\ ~fx[1].record
    /\ fx' = <<[fx[1] EXCEPT !.record = TRUE]>>
    /\ ans' = <<>>
    /\ UNCHANGED <<daemon_vars, env_vars, hist_vars, hash_vars, client_vars>>

\* handle_events has taken the answer of the call.
QueryDone ==
    /\ ans # <<>>
    /\ ans' = <<>>
    /\ UNCHANGED fx
    /\ UNCHANGED <<daemon_vars, env_vars, hist_vars, hash_vars, client_vars>>

NextReady == QueryReady \/ QueryDone \/ ThumbnailAppears \/ RecordAppears

SpecReady == InitReady /\ [][NextReady]_vars

(* ---------------------------------------------------------------------- *)
(* qhash, called on its own                                                *)
(* ---------------------------------------------------------------------- *)
\* The longest ImageID handed to qhash.
MaxIdLen == 7

\* The bytes an ImageID is made of here: a letter and two high bytes.
IdBytes == {65, 240, 255}

IdsUpTo(n) == UNION {[1..k -> IdBytes] : k \in 0..n}

InitHash ==
    /\ EngineInit
    /\ fx = <<>>
    /\ ans = <<>>
    /\ image_id \in IdsUpTo(MaxIdLen)
    /\ h_i = 0
    /\ h_acc = 0
    /\ wrapped = FALSE
    /\ dirs = <<>>
    /\ ClientIdle

\* Lines 309-313: one turn of the loop of qhash.
QhashLoop ==
    /\ h_i < Len(image_id)
    /\ h_acc' = qhash_step(h_acc, image_id[h_i + 1])
    /\ h_i' = h_i + 1
    /\ wrapped' = (wrapped \/ ShiftAdd(h_acc, image_id[h_i + 1]).hi >= Limb)
    /\ UNCHANGED <<image_id, dirs>>
    /\ UNCHANGED <<daemon_vars, env_vars, hist_vars, oracle_vars, client_vars>>

\* Lines 315 and 390-392: qhash returns h, of which dir1 and dir2 are taken.
QhashReturn ==
    /\ h_i = Len(image_id)
    /\ dirs = <<>>
    /\ dirs' = <<dir1_of(h_acc), dir2_of(h_acc)>>
    /\ UNCHANGED <<image_id, h_i, h_acc, wrapped>>
    /\ UNCHANGED <<daemon_vars, env_vars, hist_vars, oracle_vars, client_vars>>

NextHash == QhashLoop \/ QhashReturn

SpecHash == InitHash /\ [][NextHash]_vars

(* ---------------------------------------------------------------------- *)
(* handle_events, called on its own                                        *)
(* ---------------------------------------------------------------------- *)
\* main has registered n watches and handle_events is entered; the static
\* flag is as an earlier call left it.  Events arrive while it runs, one more
\* than the queue holds.
InitDecode ==
    /\ \E n \in 1..(WATCH_MAX - 1) :
          /\ watch_count = n
          /\ watch_config = [i \in CfgIdx |->
                                IF i < n THEN [inotify_wd |-> Wd(i), wd_was_destroyed |-> FALSE]
                                ELSE ZeroConfig[i]]
          /\ kwatches = {Wd(w) : w \in 0..(n - 1)}
          /\ queue = <<>>
          /\ touched = n
    /\ pc = "read"
    /\ wret = "load"
    /\ changes = 0
    /\ PT = [init_process_table EXCEPT ![0].fd = 0]
    /\ fd = 0
    /\ revents = {}
    /\ ri = 1
    /\ buf = <<>>
    /\ destroyed_wd = FALSE
    /\ was_unmounted = FALSE
    /\ pending_processing \in BOOLEAN
    /\ open_fds = {0}
    /\ status = "none"
    /\ mounted = TRUE
    /\ mnt_changed = FALSE
    /\ exists = 0..(WATCH_MAX - 1)
    /\ kpend = <<>>
    /\ child = [p \in Pids |-> "none"]
    /\ budget = MaxQueue + 1
    /\ rm_calls = {}
    /\ unmount_seen = FALSE
    /\ q_open = "none"
    /\ q_close = "none"
    /\ last = <<>>
    /\ pend_by = -1
    /\ pend_stale = pending_processing
    /\ reaped = {}
    /\ swept = {}
    /\ failed = <<>>
    /\ trace = <<[reads |-> 0, delivered |-> <<>>, decoded |-> <<>>]>>
    /\ fx = <<>>
    /\ ans = <<>>
    /\ HashIdle
    /\ ClientIdle

\* An event that carries both bits for the trigger file of watch w.
EnvOpenClose ==
    \E w \in 0..(watch_count - 1) :
        /\ Watching
        /\ budget > 0
        /\ kpend = <<>>
        /\ mounted
        /\ w \in exists
        /\ Wd(w) \in kwatches
        /\ queue' = Enqueue(queue, Event(Wd(w), {IN_OPEN, IN_CLOSE}))
        /\ budget' = budget - 1
        /\ UNCHANGED daemon_vars
        /\ UNCHANGED <<mounted, mnt_changed, exists, kwatches, kpend, child, touched>>
        /\ UNCHANGED hist_vars
        /\ UNCHANGED side_vars

\* handle_events runs while events keep coming.
NextDecode ==
    \/ ReadBatch \/ DecodeEvent \/ EndBatch
    \/ pc = "read" /\ (EnvOpen \/ EnvClose \/ EnvOpenClose \/ EnvDelete)

SpecDecode == InitDecode /\ [][NextDecode]_vars

(* ---------------------------------------------------------------------- *)
(* The IPC client: kfmon-ipc                                               *)
(* ---------------------------------------------------------------------- *)
POLLIN == "POLLIN"
POLLHUP == "POLLHUP"
LF == "LF"
NUL == "NUL"
\* The bytes of a command: a line feed, or anything else.
Chars == {"c", LF}

\* What is written to stdin in one go: one byte more than buf holds at most.
Lines == UNION {[1..k -> Chars] : k \in 1..(PIPE_BUF + 1)}

\* Line 62: char buf[PIPE_BUF] = { 0 }.
ZeroBuf == [i \in 1..PIPE_BUF |-> NUL]

\* Line 65: read_in_full(fileno(stdin), buf, bytes) stores the count bytes
\* that are pending from buf[0] on, whatever the size of buf: past
\* PIPE_BUF bytes it writes the memory behind the array.
read_in_full(dst, src, count) ==
    SubSeq(src, 1, count) \o SubSeq(dst, count + 1, Len(dst))

\* Lines 78-92: the packet made of buf and bytes.  A line feed in the last
\* byte read becomes the NUL; without one the NUL is the byte after the last
\* one read if buf has room for it, and replaces the last one read if not.
packet_of(filled, n) ==
    IF filled[n] = LF
    THEN SubSeq([filled EXCEPT ![n] = NUL], 1, n)
    ELSE IF n < PIPE_BUF
         THEN SubSeq(filled, 1, n + 1)
         ELSE SubSeq([filled EXCEPT ![n] = NUL], 1, n)

\* What a build can make of 'bytes' bytes read into buf: past PIPE_BUF bytes
\* the behaviour is undefined, the client may die on the spot or run on with
\* the memory behind buf overwritten.
ReadOutcomes(bytes) == IF bytes > PIPE_BUF THEN {"dies", "runs_on"} ELSE {"runs_on"}

\* Lines 45-106, handle_stdin (part_002): FIONREAD, read_in_full, send_in_full.
\* ret: "false" (nothing to read), "true" (sent), "exit" (send failed: the
\* daemon is gone) or "dies".
handle_stdin(data, peer_closed, outcome) ==
    LET bytes == Len(data)
    IN IF bytes = 0
       THEN [ret |-> "false", read |-> FALSE, stored |-> 0, packet |-> <<>>]
       ELSE IF outcome = "dies"
       THEN [ret |-> "dies", read |-> TRUE, stored |-> bytes, packet |-> <<>>]
       ELSE [ret |-> IF peer_closed THEN "exit" ELSE "true",
             read |-> TRUE,
             stored |-> bytes,
             packet |-> packet_of(read_in_full(ZeroBuf, data, bytes), bytes)]

\* Lines 203-215 of main: the stdin part of a wakeup.  go: where main goes
\* next ("exit", back to "poll" through the continue of line 213, or on to
\* the "sock" part).
StdinPart(outcome) ==
    IF POLLIN \notin cl_revents.in
    THEN [go |-> "sock", rc |-> "none", h |-> handle_stdin(<<>>, FALSE, "runs_on")]
    ELSE LET h == handle_stdin(cin, sock_hup, outcome)
         IN [go |-> IF h.ret # "true" THEN "exit"
                    ELSE IF POLLHUP \in cl_revents.in THEN "poll" ELSE "sock",
             rc |-> IF h.ret = "false" THEN "EXIT_SUCCESS"
                    ELSE IF h.ret = "exit" THEN "EXIT_FAILURE"
                    ELSE IF h.ret = "dies" THEN "SIGSEGV" ELSE "none",
             h |-> h]

\* Lines 217-248 of main, with handle_reply (lines 109-140): the socket part
\* of a wakeup and the two POLLHUP checks after it.  printed: the replies
\* the xread of line 116 took from the socket and line 130 printed.
SockPart(queued) ==
    IF POLLIN \in cl_revents.sock /\ queued = 0
    THEN [go |-> "exit", printed |-> 0,
          rc |-> IF POLLHUP \in cl_revents.sock THEN "EPIPE" ELSE "ENODATA"]
    ELSE [go |-> IF POLLHUP \in cl_revents.in \/ POLLHUP \in cl_revents.sock
                 THEN "exit" ELSE "poll",
          printed |-> IF POLLIN \in cl_revents.sock THEN queued ELSE 0,
          rc |-> IF POLLHUP \in cl_revents.in THEN "EXIT_SUCCESS"
                 ELSE IF POLLHUP \in cl_revents.sock THEN "EPIPE" ELSE "none"]

\* What poll() reports on stdin (a pipe whose writer is gone reports POLLHUP,
\* an end of transmission POLLIN with nothing to read) and on the socket.
StdinReady ==
    (IF cin # <<>> \/ cin_end = "eot" THEN {POLLIN} ELSE {})
        \cup (IF cin_end = "hup" THEN {POLLHUP} ELSE {})
SocketReady ==
    (IF sock_in > 0 \/ sock_hup THEN {POLLIN} ELSE {})
        \cup (IF sock_hup THEN {POLLHUP} ELSE {})

\* The client is connected (lines 153-170) and about to poll.
InitClient ==
    /\ EngineInit
    /\ fx = <<>>
    /\ ans = <<>>
    /\ HashIdle
    /\ cl_pc = "poll"
    /\ cl_rc = "none"
    /\ cl_revents = [in |-> {}, sock |-> {}]
    /\ cin = <<>>
    /\ cin_end = "open"
    /\ cmds = 0
    /\ sock_out = 0
    /\ sock_in = 0
    /\ sock_hup = FALSE
    /\ owed = 0
    /\ stored = 0
    /\ packet = <<>>

\* Lines 190-201: poll() returns with something to report.
ClientPoll ==
    /\ cl_pc = "poll"
    /\ StdinReady \cup SocketReady # {}
    /\ cl_revents' = [in |-> StdinReady, sock |-> SocketReady]
    /\ cl_pc' = "woken"
    /\ UNCHANGED <<cl_rc, cin, cin_end, cmds, sock_out, sock_in, sock_hup, owed, stored, packet>>
    /\ UNCHANGED <<daemon_vars, env_vars, hist_vars, oracle_vars, hash_vars>>

\* Lines 201-255: the body of the loop after a wakeup, up to the next poll()
\* or to the end of main.
ClientWakeup ==
    /\ cl_pc = "woken"
    /\ \E outcome \in ReadOutcomes(Len(cin)) :
          LET a == StdinPart(outcome)
              sent == a.h.ret = "true"
              b == IF a.go = "sock"
                   THEN SockPart(sock_in)
                   ELSE [go |-> a.go, printed |-> 0, rc |-> a.rc]
          IN /\ cin' = IF a.h.read THEN <<>> ELSE cin
             /\ stored' = IF a.h.read THEN a.h.stored ELSE stored
             /\ packet' = IF a.h.packet # <<>> THEN a.h.packet ELSE packet
             /\ sock_out' = IF sent THEN sock_out + 1 ELSE sock_out
             /\ sock_in' = sock_in - b.printed
             /\ owed' = (IF sent THEN owed + 1 ELSE owed) - b.printed
             /\ cl_pc' = IF b.go = "exit" THEN "exited" ELSE "poll"
             /\ cl_rc' = b.rc
    /\ cl_revents' = [in |-> {}, sock |-> {}]
    /\ UNCHANGED <<cin_end, cmds, sock_hup>>
    /\ UNCHANGED <<daemon_vars, env_vars, hist_vars, oracle_vars, hash_vars>>

\* Something writes a command to the client's stdin.
StdinWrite ==
    /\ cl_pc # "exited"
    /\ cin_end = "open"
    /\ cin = <<>>
    /\ cmds < MaxCmds
    /\ \E l \in Lines : cin' = l
    /\ cmds' = cmds + 1
    /\ UNCHANGED <<cl_pc, cl_rc, cl_revents, cin_end, sock_out, sock_in, sock_hup,
                   owed, stored, packet>>
    /\ UNCHANGED <<daemon_vars, env_vars, hist_vars, oracle_vars, hash_vars>>

\* The writer of the pipe on stdin goes away, or the user ends the
\* transmission.
StdinEnds ==
    /\ cl_pc # "exited"
    /\ cin_end = "open"
    /\ \E e \in {"hup", "eot"} : cin_end' = e
    /\ UNCHANGED <<cl_pc, cl_rc, cl_revents, cin, cmds, sock_out, sock_in, sock_hup,
                   owed, stored, packet>>
    /\ UNCHANGED <<daemon_vars, env_vars, hist_vars, oracle_vars, hash_vars>>

\* The daemon answers the oldest command it holds.
ServerReplies ==
    /\ cl_pc # "exited"
    /\ ~sock_hup
    /\ sock_out > 0
    /\ sock_out' = sock_out - 1
    /\ sock_in' = sock_in + 1
    /\ UNCHANGED <<cl_pc, cl_rc, cl_revents, cin, cin_end, cmds, sock_hup, owed, stored, packet>>
    /\ UNCHANGED <<daemon_vars, env_vars, hist_vars, oracle_vars, hash_vars>>

\* The daemon closes the connection.
ServerCloses ==
    /\ cl_pc # "exited"
    /\ ~sock_hup
    /\ sock_hup' = TRUE
    /\ UNCHANGED <<cl_pc, cl_rc, cl_revents, cin, cin_end, cmds, sock_out, sock_in,
                   owed, stored, packet>>
    /\ UNCHANGED <<daemon_vars, env_vars, hist_vars, oracle_vars, hash_vars>>

NextClient ==
    \/ ClientPoll \/ ClientWakeup
    \/ StdinWrite \/ StdinEnds \/ ServerReplies \/ ServerCloses

SpecClient == InitClient /\ [][NextClient]_vars

(* ---------------------------------------------------------------------- *)
(* Properties                                                              *)
(* ---------------------------------------------------------------------- *)
\* handle_events is about to decode the first event of buf.
Decoding == pc = "event" /\ buf # <<>>
\* The watch that event is matched to (watch_count: none).
CurIdx == MatchWatch(watch_config, watch_count, Head(buf).wd)
\* The process table slots recorded for watch w.
SlotsOf(w) == {i \in Slots : PT[i].watchid = w}
\* The step forks a companion.
Forked == \E p \in Pids : child[p] = "none" /\ child'[p] = "run"
\* The step leaves the process table and the companions alone.
NothingSpawned == PT' = PT /\ child' = child
Watches == 0..(watch_count - 1)

UniqueSlots == \A w \in 0..(WATCH_MAX - 1) : Cardinality(SlotsOf(w)) <= 1

\* C1: at most one in flight.  In every reachable state a watch index is in
\* at most one slot of the process table, and decoding an IN_CLOSE for a watch
\* that has a slot (its companion is not reaped yet) forks nothing and leaves
\* the table as it is.
C1_AtMostOneInFlight ==
    [][ /\ UniqueSlots'
        /\ (Decoding /\ IN_CLOSE \in Head(buf).mask /\ SlotsOf(CurIdx) # {})
              => NothingSpawned ]_vars

\* An IN_CLOSE was decoded for a watch whose companion is still tracked.
C1_Witness ==
    /\ last # <<>>
    /\ IN_CLOSE \in last[1].mask
    /\ last[1].tracked
    /\ SlotsOf(last[1].idx) # {}

\* C2: spawn condition.  Decoding an IN_CLOSE for a watch with no slot forks
\* the companion if and only if the pending flag is clear and
\* is_target_processed(watch, true) was asked and answered true; in every
\* other case nothing is forked and the process table is unchanged.
C2_SpawnCondition ==
    [][ (Decoding /\ IN_CLOSE \in Head(buf).mask /\ SlotsOf(CurIdx) = {})
          => IF ~pending_processing' /\ q_close' = "ready"
             THEN Forked
             ELSE NothingSpawned ]_vars

\* An IN_CLOSE for an untracked watch met a clear flag and a ready target,
\* and the companion is in the table.
C2_Witness ==
    /\ last # <<>>
    /\ IN_CLOSE \in last[1].mask
    /\ ~last[1].tracked
    /\ q_close = "ready"
    /\ \E i \in ProcSlots : PT[i].watchid = last[1].idx /\ child[PT[i].pid] = "run"

\* C3 (as amended): the pending flag is written by nothing but an IN_OPEN for
\* a watch with no slot, which sets it to the negation of the oracle's answer;
\* every IN_CLOSE decoded while it is set (the first after that IN_OPEN and
\* any later one, until such an IN_OPEN clears it) forks nothing, and the
\* oracle is not even asked.
C3_PendingFlag ==
    [][ Decoding =>
          LET asks == IN_OPEN \in Head(buf).mask /\ SlotsOf(CurIdx) = {}
          IN /\ asks => (pending_processing' <=> q_open' = "notready")
             /\ ~asks => pending_processing' = pending_processing
             /\ (pending_processing' /\ IN_CLOSE \in Head(buf).mask)
                   => (NothingSpawned /\ q_close' = "none") ]_vars

\* An IN_CLOSE for an untracked watch was decoded with the flag set: nothing
\* was asked, nothing spawned, and the flag is still set.
C3_Witness ==
    /\ last # <<>>
    /\ last[1].mask = {IN_CLOSE}
    /\ ~last[1].tracked
    /\ pending_processing
    /\ q_close = "none"
    /\ SlotsOf(last[1].idx) = {}

\* C3 as stated: the suppression holds for exactly one closed observation,
\* that is, an IN_CLOSE decoded while the flag is set uses the suppression up
\* and leaves the flag clear.
C3_OneClosedOnly ==
    [][ (Decoding /\ pending_processing /\ Head(buf).mask = {IN_CLOSE})
          => ~pending_processing' ]_vars

\* C4: overflow storm independence.  In a batch holding IN_CLOSE events of
\* two distinct watches, the decision for the second one depends on that
\* watch alone: when it is about to be decided with the pending flag set (and
\* so will not spawn), the flag was set by that watch's own IN_OPEN.
C4_StormIndependence ==
    (/\ Decoding
     /\ last # <<>>
     /\ IN_CLOSE \in Head(buf).mask
     /\ SlotsOf(CurIdx) = {}
     /\ pending_processing)
       => (IN_CLOSE \in last[1].mask /\ last[1].idx # CurIdx => pend_by = CurIdx)

\* C5: reap correctness.  Once the reaping of a wakeup is through no tracked
\* companion is left that exited with its pipe closed, a freed slot holds the
\* three sentinels, and a qualifying IN_CLOSE for a watch whose companion was
\* reaped spawns again: the daemon lives on and the new companion is recorded
\* in a slot.
C5_ReapThenRespawn ==
    /\ pc \in {"read", "event"}
          => \A i \in ProcSlots : PT[i].pid # -1 => child[PT[i].pid] # "dead"
    /\ \A i \in ProcSlots : PT[i].pid = -1 => PT[i] = EmptyEntry
    /\ (/\ last # <<>>
        /\ IN_CLOSE \in last[1].mask
        /\ ~last[1].tracked
        /\ last[1].idx \in reaped
        /\ q_close = "ready")
          => /\ status = "none"
             /\ \E i \in ProcSlots : PT[i].watchid = last[1].idx /\ PT[i].pid # -1

\* The watch descriptors the watch configs hold.
ConfigWds == {watch_config[w].inotify_wd : w \in Watches}

C7_RecoveryDeregisters ==
    [][ (pc = "event" /\ buf = <<>> /\ destroyed_wd /\ ~unmount_seen)
          => LET flagged == {w \in Watches : watch_config[w].wd_was_destroyed}
                 calls == rm_calls' \ rm_calls
             IN /\ {c.idx : c \in calls} = Watches \ flagged
                /\ \A c \in calls :
                      c.by = "cleanup" /\ c.wd = watch_config[c.idx].inotify_wd
                /\ fd \notin open_fds'
                /\ pc' = "inotify_init" ]_vars

\* A generation ended without unmount: one watch was destroyed and not
\* removed, another one was removed by the clean-up.
C7_Witness ==
    /\ pc = "inotify_init"
    /\ ~unmount_seen
    /\ \E c \in rm_calls : c.by = "cleanup"
    /\ \E w \in Watches : \A c \in rm_calls : c.idx # w

\* C8: generation recovery after an unmount.  If an IN_UNMOUNT was decoded
\* in the generation before the batch that ends it (in that batch, an earlier
\* one or an earlier wakeup), the clean-up calls inotify_rm_watch for no
\* watch.
C8_UnmountNoDeregistration ==
    \A c \in rm_calls : c.by = "cleanup" => ~c.after_unmount

\* C9: cold start liveness.  When the mountpoint was missing at startup and
\* the mount appears, be it before or after wait_for_target_mountpoint opened
\* /proc/mounts, the daemon gets out of the wait and goes on loading its
\* config (the first step towards registering the watches).
C9_ColdStart ==
    (wret = "load" /\ pc \in {"mw_open", "mw_poll"} /\ mounted) ~> (pc = "load_files")

\* The answer of the last call of is_target_processed.
Answer == ans[1].out.result
RecordAndThumbs == fx[1].record /\ fx[1].thumbs = Thumbs

\* C10 (as amended): unless the build is a DEBUG one and the watch has
\* skip_db_checks set, is_target_processed answers true only if the record is
\* there with all three thumbnails; with the record there and a thumbnail
\* missing it answers false; with the record and the three thumbnails there it
\* answers true provided neither of the two SELECTs ran into the busy timeout
\* and no call on the database (open, prepare, bind) failed.
C10_ThreeArtifacts ==
    (ans # <<>> /\ ~(fx[1].debug /\ fx[1].skip_db_checks)) =>
        /\ Answer => RecordAndThumbs
        /\ (fx[1].record /\ fx[1].thumbs # Thumbs) => ~Answer
        /\ (/\ RecordAndThumbs
            /\ ans[1].e.step1 # "BUSY" /\ ans[1].e.step2 # "BUSY"
            /\ ans[1].e.fail = "none")
              => Answer

\* A call answered false while a thumbnail was missing; the thumbnail
\* appeared and the next call answers true.
C10_Witness ==
    /\ ans # <<>>
    /\ ~(fx[1].debug /\ fx[1].skip_db_checks)
    /\ fx[1].refused
    /\ RecordAndThumbs
    /\ Answer

\* C10 as stated: true only if the record and the three thumbnails are there,
\* false with the record there and a thumbnail missing, true once the record
\* and the three thumbnails are there.
C10_AsStated ==
    ans # <<>> =>
        /\ Answer => RecordAndThumbs
        /\ (fx[1].record /\ fx[1].thumbs # Thumbs) => ~Answer
        /\ RecordAndThumbs => Answer

\* The recurrence of the hash on numbers of any size: accumulator 0; for each
\* byte, shift left 4 and add the byte, XOR in (acc & 0xf0000000) >> 23, keep
\* the low 28 bits.  The upper part `hi` is exact: nothing is cut off.
RefRound(h, b) ==
    LET lo == (h % 2^16) * 16 + b
        hi == (h \div 2^16) * 16 + lo \div 2^16
        nib == (hi \div 2^12) % 16
    IN (hi % 2^12) * 2^16 + Xor(lo % 2^16, nib * 32)

RECURSIVE RefHash(_)
RefHash(s) ==
    IF s = <<>> THEN 0
    ELSE RefRound(RefHash(SubSeq(s, 1, Len(s) - 1)), s[Len(s)])

\* C11: after every turn of its loop, the accumulator of qhash (an unsigned
\* int, 32 bits) equals the recurrence computed without truncation on the
\* bytes taken so far, and is below 2^28; dir1 and dir2 are the low byte and
\* the next byte of the hash of the whole ImageID, both in 0..255, so they
\* are a function of the bytes alone.
C11_QhashRecurrence ==
    /\ h_acc = RefHash(SubSeq(image_id, 1, h_i))
    /\ h_acc < 2^28
    /\ dirs # <<>> =>
          /\ dirs[1] = RefHash(image_id) % 256
          /\ dirs[2] = (RefHash(image_id) \div 256) % 256
          /\ dirs[1] \in 0..255 /\ dirs[2] \in 0..255

\* qhash returned for an ImageID on which (h << 4) + bytes[i] went past 32
\* bits.
C11_Witness ==
    /\ dirs # <<>>
    /\ wrapped
    /\ h_i = Len(image_id)

\* C12: slot 0 of the process table is reserved for the inotify descriptor.
\* Its pid and its watch index are -1 in every state; the only write to it is
\* the registration pass storing the inotify descriptor in its fd; a step that
\* forks a companion, the reaping of a signalled pipe and the WNOHANG sweep
\* leave it as it is.
C12_SlotZeroReserved ==
    [][ /\ PT[0].pid = -1 /\ PT[0].watchid = -1
        /\ PT'[0].pid = -1 /\ PT'[0].watchid = -1
        /\ PT'[0] # PT[0] => (pc = "register" /\ PT'[0].fd = fd)
        /\ (Forked \/ pc = "reap" \/ reaped' # reaped) => PT'[0] = PT[0] ]_vars

\* Slot 0 holds the inotify descriptor, a companion is tracked in another
\* slot and one was reaped.
C12_Witness ==
    /\ PT[0].fd = fd
    /\ fd # -1
    /\ Tracked(PT) # {}
    /\ reaped # {}

\* Every tracked companion is running with its pipe open.
AllTrackedRun == \A i \in ProcSlots : PT[i].pid # -1 => child[PT[i].pid] = "run"

\* C13: reaping comes before decoding.  handle_events is entered from the
\* reaping of the same wakeup only, once every slot poll() reported on is
\* reaped (its entry is empty) and the WNOHANG sweep has left no tracked
\* companion that exited; so whenever an event is read or decoded, the
\* process table holds running companions only.
C13_ReapBeforeDecode ==
    [][ /\ (pc # "read" /\ pc' = "read") =>
              (\/ pc = "event"
               \/ /\ pc = "reap"
                  /\ \A i \in revents \cap ProcSlots : PT[i] = EmptyEntry
                  /\ ZombieSlots(PT', child') = {})
        /\ (pc # "event" /\ pc' = "event") => pc = "read"
        /\ pc' \in {"read", "event"} => AllTrackedRun' ]_vars

\* An IN_CLOSE is about to be decoded for a watch whose companion was reaped,
\* while the companion of another watch is running.
C13_Witness ==
    /\ Decoding
    /\ IN_CLOSE \in Head(buf).mask
    /\ CurIdx \in reaped
    /\ SlotsOf(CurIdx) = {}
    /\ Tracked(PT) # {}

\* C14: a queue overflow is handled as the invalidation of one watch.  When
\* an IN_Q_OVERFLOW event is decoded, a watch of the watch set is the affected
\* one: inotify_rm_watch is called for it with its own descriptor, it is
\* flagged as destroyed, and the end of the generation is signalled.
C14_OverflowAsInvalidation ==
    [][ (Decoding /\ IN_Q_OVERFLOW \in Head(buf).mask) =>
          /\ destroyed_wd'
          /\ \E w \in Watches :
                /\ watch_config'[w].wd_was_destroyed
                /\ \E c \in rm_calls' :
                      c.by = "overflow" /\ c.idx = w /\ c.wd = watch_config[w].inotify_wd
        ]_vars

\* C15: fail-fast registration.  The registration pass of a generation, the
\* first or a later one, either adds a watch for every watch config and
\* enters the wait loop with all of them in the inotify instance, or, when
\* the file of any watch config cannot be watched, ends the daemon with a
\* failure status; the wait loop is entered from there only (and gone back
\* to from its own iterations).
C15_FailFast ==
    [][ /\ (pc = "register" /\ pc' # "register") =>
              IF \A w \in Watches : mounted /\ w \in exists
              THEN /\ pc' = "poll"
                   /\ Cardinality(kwatches') = watch_count
                   /\ \A w \in Watches : watch_config'[w].inotify_wd \in kwatches'
              ELSE /\ pc' = "exited"
                   /\ status' = "failure"
        /\ (pc # "poll" /\ pc' = "poll") => pc \in {"register", "reap", "read"} ]_vars

\* The registration pass of a later generation failed on a missing file (or
\* a missing mount) and the daemon is gone.
C15_Witness ==
    /\ pc = "exited"
    /\ status = "failure"
    /\ PT[0].fd # -1
    /\ last = <<>>
    /\ changes = 0
    /\ (~mounted \/ \E w \in Watches : w \notin exists)

\* C16: the mount wait has no partial success.  With the target mounted the
\* callers do not wait at all; wait_for_target_mountpoint returns only after
\* a change of the mount table was reported and the re-scan found the target;
\* it ends the process when more than MaxChanges changes were seen without
\* the target; it never returns with the target not mounted.
C16_NoPartialSuccess ==
    [][ /\ (pc \in {"load_config", "mount_check"} /\ mounted /\ pc' # pc)
              => pc' \notin {"mw_open", "mw_poll"}
        /\ (pc = "mw_poll" /\ pc' = ReturnTo(wret)) => (mnt_changed /\ mounted)
        /\ (pc = "mw_poll" /\ pc' = "exited") => (changes' > MaxChanges /\ ~mounted)
      ]_vars

DecodingOpen == Decoding /\ IN_OPEN \in Head(buf).mask /\ IN_CLOSE \notin Head(buf).mask

\* C18: an IN_OPEN for a watch with no slot in the process table asks
\* is_target_processed once, with wait_for_db false, and leaves the pending
\* flag set if the answer is false and clear if it is true; nothing is forked,
\* the process table is unchanged and the daemon lives on.
C18_OpenSetsFlag ==
    [][ (DecodingOpen /\ SlotsOf(CurIdx) = {}) =>
          /\ q_open' \in {"ready", "notready"}
          /\ pending_processing' <=> q_open' = "notready"
          /\ last'[1].waits = {FALSE}
          /\ NothingSpawned
          /\ pc' = "event" ]_vars

\* An IN_OPEN for an untracked watch met a target that is not ready while the
\* companion of another watch is running: the flag is set.
C18_Witness ==
    /\ last # <<>>
    /\ last[1].mask = {IN_OPEN}
    /\ ~last[1].tracked
    /\ q_open = "notready"
    /\ pending_processing
    /\ Tracked(PT) # {}

\* C19: an IN_OPEN for a watch that has a slot in the process table is
\* ignored: is_target_processed is not called, and the pending flag, the
\* process table, the companions and the watch configs stay as they are.
C19_OpenWhileTracked ==
    [][ (DecodingOpen /\ SlotsOf(CurIdx) # {}) =>
          /\ q_open' = "none"
          /\ last'[1].waits = {}
          /\ pending_processing' = pending_processing
          /\ NothingSpawned
          /\ watch_config' = watch_config ]_vars

\* An IN_OPEN was decoded for a watch whose companion is tracked, while the
\* flag was set (by another watch): it is still set.
C19_Witness ==
    /\ last # <<>>
    /\ last[1].mask = {IN_OPEN}
    /\ last[1].tracked
    /\ q_open = "none"
    /\ pending_processing

\* C20: the pending flag is scoped to one generation.  An IN_CLOSE of an
\* untracked watch that is decided in a generation in which no IN_OPEN was
\* decided yet does not meet a flag set in an earlier generation.
C20_FlagScopedToGeneration ==
    (Decoding /\ IN_CLOSE \in Head(buf).mask /\ SlotsOf(CurIdx) = {})
        => ~(pending_processing /\ pend_stale)

\* The daemon is between the end of a generation's wait loop (or its start)
\* and the registration pass.
BeforeRegistration == pc \in {"inotify_init", "mount_check", "mw_open", "mw_poll", "register"}

\* C21: the wd_was_destroyed flags are reset once per generation.  Whenever a
\* generation starts (from inotify_init1 up to the registration pass), no
\* watch of the watch set has its flag set, whatever events (IN_IGNORED,
\* IN_Q_OVERFLOW, IN_UNMOUNT) ended the generation before.
C21_FlagsResetPerGeneration ==
    BeforeRegistration => \A w \in Watches : ~watch_config[w].wd_was_destroyed

\* A generation in which an IN_UNMOUNT and an IN_Q_OVERFLOW were decoded has
\* just ended.
C21_Witness ==
    /\ pc = "inotify_init"
    /\ PT[0].fd # -1
    /\ unmount_seen
    /\ \E c \in rm_calls : c.by = "overflow"
    /\ watch_count > 0

\* main is about to run the WNOHANG sweep (lines 928-931).
Sweeping == pc = "reap" /\ ToReap = {} /\ 0 \in revents

\* C22: the WNOHANG sweep goes over every slot but slot 0.  A tracked
\* companion that has exited is reaped: its slot holds the three sentinels
\* and its pipe is closed.  The slot of one that is alive keeps its pid, its
\* descriptor and its watch index, the companion is not touched and its pipe
\* stays open.  The sweep does not wait for anything: handle_events follows
\* at once.
C22_SweepReapsExitedOnly ==
    [][ Sweeping =>
          /\ pc' = "read"
          /\ PT'[0] = PT[0]
          /\ \A i \in ProcSlots : PT[i].pid # -1 =>
                IF IsDead(child[PT[i].pid])
                THEN /\ PT'[i] = EmptyEntry
                     /\ child'[PT[i].pid] = "none"
                     /\ PT[i].fd \notin open_fds'
                ELSE /\ PT'[i] = PT[i]
                     /\ child'[PT[i].pid] = child[PT[i].pid]
                     /\ PT[i].fd \in open_fds' ]_vars

\* The sweep has just reaped an exited companion whose pipe had not signalled
\* and left a live one in its slot.
C22_Witness ==
    /\ pc = "read"
    /\ swept # {}
    /\ \A i \in swept : PT[i] = EmptyEntry
    /\ \E i \in ProcSlots : PT[i].pid # -1 /\ child[PT[i].pid] \in {"run", "run_closed"}

\* is_target_processed was called in this step.
Called == ans' # <<>> /\ ans' # ans

\* C23 (as amended): a locked database is "not ready".  When the step of the
\* record query or of the ImageID query runs into the lock, is_target_processed
\* answers false (unless a DEBUG build skips the database for the watch).  The
\* call of an IN_OPEN leaves the pending flag equal to the negation of its own
\* answer, whatever the flag was and whatever earlier calls met: a lock sets
\* it, and the next IN_OPEN asks again and decides anew.  While the flag is
\* set the IN_CLOSE branch asks nothing and spawns nothing.  The call of an
\* IN_CLOSE spawns exactly when its answer is true and leaves the flag alone.
\* (A lock met by the title query or by the UPDATE of a watch with
\* do_db_update does not change the answer.)
C23_LockIsNotReady ==
    [][ Called =>
          LET a == ans'[1]
              skipped == fx[1].debug /\ fx[1].skip_db_checks
          IN /\ (LockedQuery(a.e) /\ ~skipped) => ~a.out.result
             /\ ~a.wait_for_db =>
                   /\ pending_processing' <=> ~a.out.result
                   /\ ~a.spawns
             /\ a.wait_for_db =>
                   /\ ~pending_processing
                   /\ pending_processing' = pending_processing
                   /\ a.spawns <=> a.out.result ]_vars

\* An IN_OPEN met a locked database on this trigger and set the flag; now the
\* record and the thumbnails are there, another IN_OPEN has asked again, was
\* answered true and cleared the flag.
C23_Witness ==
    /\ ans # <<>>
    /\ fx[1].locked
    /\ ~(fx[1].debug /\ fx[1].skip_db_checks)
    /\ ~ans[1].wait_for_db
    /\ ~LockedQuery(ans[1].e)
    /\ ans[1].out.result
    /\ ~pending_processing

\* C23 as stated: whichever query step runs into the lock (the record query,
\* the ImageID query or the title query), is_target_processed answers false.
C23_AsStated ==
    (/\ ans # <<>>
     /\ ~(fx[1].debug /\ fx[1].skip_db_checks)
     /\ ans[1].e.fail = "none"
     /\ \/ LockedQuery(ans[1].e)
        \/ fx[1].do_db_update /\ ans[1].e.step3 = "BUSY")
       => ~ans[1].out.result

\* A system call failed in this step.
CallFailed == failed' # <<>> /\ failed' # failed

\* C24: failures of the wait.  A poll() interrupted by a signal is retried:
\* the daemon stays in the wait and nothing of its state changes (nothing is
\* reaped, no event is read or decoded, no companion is touched).  Any other
\* failure of poll(), a failure of the read() of the inotify descriptor (EAGAIN
\* is not one: it ends the reading) and a failure of inotify_init1 end the
\* process with a failure status.
C24_WaitFailures ==
    [][ CallFailed =>
          IF failed'[1].call = "poll" /\ failed'[1].errno = "EINTR"
          THEN /\ pc = "poll"
               /\ daemon_vars' = daemon_vars
               /\ <<queue, kwatches, child>>' = <<queue, kwatches, child>>
               /\ <<reaped, swept, last, rm_calls>>' = <<reaped, swept, last, rm_calls>>
          ELSE /\ pc' = "exited"
               /\ status' = "failure"
               /\ failed'[1].call = "poll" => pc = "poll"
               /\ failed'[1].call = "read" => pc = "read"
               /\ failed'[1].call = "inotify_init1" => pc = "inotify_init" ]_vars

\* poll() was interrupted while a companion is tracked; events have arrived
\* since, and the daemon is still in the wait with nothing decoded.
C24_Witness ==
    /\ pc = "poll"
    /\ failed = Failure("poll", "EINTR")
    /\ Tracked(PT) # {}
    /\ queue # <<>>
    /\ buf = <<>>

\* C25: every event of every batch is decoded once, in the order read() handed
\* them over.  A read() that finds nothing ends handle_events; one that finds
\* events hands all of them over as one batch; decoding takes the first event
\* not yet decoded; after the last event of a batch the next read() follows,
\* unless the batch held an IN_IGNORED or IN_Q_OVERFLOW, which ends the call.
\* So at any moment the events decoded followed by the ones still in the
\* buffer are the events read.  In an event with both IN_OPEN and IN_CLOSE for
\* an untracked watch the IN_OPEN branch runs first: the oracle is asked for
\* the IN_OPEN, and the IN_CLOSE branch goes by the flag that answer has left
\* (not ready: nothing asked, nothing spawned; ready: the oracle is asked
\* again, even if the flag was set before the event).
C25_EveryEventOnceInOrder ==
    [][ /\ pc' # "exited" => trace'[1].decoded \o buf' = trace'[1].delivered
        /\ (pc = "read" /\ pc' # "read") =>
              IF queue = <<>>
              THEN pc' = "poll" /\ trace' = trace
              ELSE /\ pc' = "event" /\ buf' = queue
                   /\ trace'[1].delivered = trace[1].delivered \o queue
        /\ (Decoding /\ pc' # "exited") =>
              /\ trace'[1].decoded = Append(trace[1].decoded, Head(buf))
              /\ buf' = Tail(buf)
        /\ (pc = "event" /\ buf = <<>>) =>
              pc' = IF destroyed_wd THEN "inotify_init" ELSE "read"
        /\ (Decoding /\ {IN_OPEN, IN_CLOSE} \subseteq Head(buf).mask /\ SlotsOf(CurIdx) = {}) =>
              /\ q_open' # "none"
              /\ q_open' = "notready" =>
                    (q_close' = "none" /\ NothingSpawned /\ pending_processing')
              /\ q_open' = "ready" => (q_close' # "none" /\ ~pending_processing') ]_vars

\* handle_events has returned after more than one read() that found events:
\* three or more events were read, among them one with both bits whose
\* IN_CLOSE branch spawned, and all of them are decoded.
C25_Witness ==
    /\ pc = "poll"
    /\ trace # <<>>
    /\ trace[1].reads >= 2
    /\ Len(trace[1].delivered) >= 3
    /\ trace[1].decoded = trace[1].delivered
    /\ \E k \in 1..Len(trace[1].decoded) :
          /\ trace[1].decoded[k].mask = {IN_OPEN, IN_CLOSE}
          /\ \E i \in ProcSlots : Wd(PT[i].watchid) = trace[1].decoded[k].wd

\* The longest the journal wait lasts: count goes past 40 (line 494).
MostSleeps(checks) == IF checks > 41 THEN 41 ELSE checks

\* C26: the journal wait is bounded and changes no answer.  The call sleeps
\* only when wait_for_db is true and the target was found processed; it
\* sleeps once for every check that finds the journal, 41 times at most,
\* also when the journal stays for good; a call that slept answers true, and
\* every call answers what it would have answered with no journal there.
C26_JournalWaitBounded ==
    ans # <<>> =>
        LET a == ans[1]
            f == fx[1]
            cfg == [do_db_update |-> f.do_db_update, skip_db_checks |-> f.skip_db_checks]
            no_journal == [a.e EXCEPT !.journal = 0]
        IN /\ a.out.sleeps <= 41
           /\ a.out.sleeps > 0 => (a.wait_for_db /\ a.out.result)
           /\ (a.wait_for_db /\ a.out.result /\ a.e.fail = "none"
                  /\ ~(f.debug /\ f.skip_db_checks))
                 => a.out.sleeps = MostSleeps(a.e.journal)
           /\ a.out.result =
                 is_target_processed(f.debug, cfg, no_journal, a.wait_for_db).result

\* The journal never went away: the call from the IN_CLOSE branch slept 41
\* times, gave up and answered true.
C26_Witness ==
    /\ ans # <<>>
    /\ ans[1].wait_for_db
    /\ ans[1].e.journal > 41
    /\ ans[1].out.sleeps = 41
    /\ ans[1].out.result
    /\ ans[1].spawns

\* C27: the UPDATE is issued only for a watch with do_db_update, when the
\* target was found processed (the call answers true) and the SELECT Title
\* gave a title that differs from the configured one.  Without do_db_update
\* the database is opened read-only and no UPDATE is issued.  The outcome of
\* the UPDATE never changes the answer: when it fails nothing is updated and
\* the call answers true as it would have with the UPDATE done.
C27_UpdateOnlyWhenAsked ==
    ans # <<>> =>
        LET a == ans[1]
            f == fx[1]
            cfg == [do_db_update |-> f.do_db_update, skip_db_checks |-> f.skip_db_checks]
            update_done == [a.e EXCEPT !.step4 = "DONE"]
        IN /\ a.out.update_issued =>
                 /\ f.do_db_update
                 /\ a.out.opened = "rw"
                 /\ a.out.result
                 /\ RecordAndThumbs
                 /\ a.e.step3 = "DIFF"
           /\ ~f.do_db_update =>
                 /\ a.out.opened \in {"ro", "none"}
                 /\ ~a.out.update_issued
                 /\ ~a.out.updated
           /\ a.out.updated => (a.out.update_issued /\ a.e.step4 = "DONE")
           /\ (a.out.update_issued /\ a.e.step4 # "DONE") => (~a.out.updated /\ a.out.result)
           /\ a.out.result =
                 is_target_processed(f.debug, cfg, update_done, a.wait_for_db).result

\* The UPDATE was issued for a watch with do_db_update and failed on a locked
\* database: nothing is updated and the call has answered true.
C27_Witness ==
    /\ ans # <<>>
    /\ fx[1].do_db_update
    /\ ans[1].out.update_issued
    /\ ans[1].e.step4 = "BUSY"
    /\ ~ans[1].out.updated
    /\ ans[1].out.result

\* C28: spawn always finds a free slot.  With at most WATCH_MAX watches and at
\* most one companion per watch, whenever the IN_CLOSE branch has decided to
\* spawn (the watch is untracked, the oracle answered "ready"), the daemon
\* lives on and the companion is recorded in a slot of the process table,
\* also when the companions of all the other watches are alive.
C28_SpawnFindsSlot ==
    (/\ last # <<>>
     /\ IN_CLOSE \in last[1].mask
     /\ ~last[1].tracked
     /\ q_close = "ready")
       => /\ pc # "exited"
          /\ \E i \in Slots : PT[i].watchid = last[1].idx /\ PT[i].pid # -1

\* C29: an event that matches no watch is only logged.  Decoding an event
\* whose wd is the inotify_wd of none of the watch configs (the overflow
\* event, whose wd is -1, among them) forks nothing, asks the oracle nothing,
\* leaves the pending flag and the process table as they are, writes to no
\* watch config (none of the watch set and none behind it) and hands no
\* descriptor read from behind the watch set to inotify_rm_watch.
C29_UnmatchedOnlyLogged ==
    [][ (Decoding /\ \A w \in Watches : watch_config[w].inotify_wd # Head(buf).wd) =>
          /\ NothingSpawned
          /\ q_open' = "none" /\ q_close' = "none"
          /\ pending_processing' = pending_processing
          /\ watch_config' = watch_config
          /\ \A c \in rm_calls' \ rm_calls : c.idx \in Watches ]_vars

\* The daemon is inside the loop of line 888: polling, reaping or in
\* handle_events.
InnerLoop == pc \in {"poll", "reap", "read", "event"}

\* C30: an unmount event alone never ends a generation.  The inner loop is
\* left for a new generation only at the end of a batch in which an
\* auto-removed (IN_IGNORED) or overflow (IN_Q_OVERFLOW) event was decoded:
\* destroyed_wd is raised by the decoding of such an event and by nothing
\* else, the decoding of any other event (an unmount event among them) leaves
\* it as it was, and as long as the loop is not left that way the
\* notification handle stays the same and stays open.
C30_UnmountAloneKeepsGeneration ==
    [][ /\ (destroyed_wd' /\ ~destroyed_wd) =>
              /\ Decoding
              /\ \/ IN_IGNORED \in Head(buf).mask
                 \/ IN_Q_OVERFLOW \in Head(buf).mask
        /\ (/\ Decoding
            /\ IN_IGNORED \notin Head(buf).mask
            /\ IN_Q_OVERFLOW \notin Head(buf).mask) =>
              /\ destroyed_wd' = destroyed_wd
              /\ pc' \in {"event", "exited"}
        /\ (InnerLoop /\ pc' = "inotify_init") =>
              (pc = "event" /\ buf = <<>> /\ destroyed_wd)
        /\ (InnerLoop /\ InnerLoop') =>
              (fd' = fd /\ (fd \in open_fds => fd \in open_fds'))
        /\ (pc = "event" /\ buf = <<>> /\ ~destroyed_wd) => pc' = "read" ]_vars

\* An unmount event was decoded in this generation, its batch is through
\* without an invalidation event, handle_events has returned and the daemon
\* polls the same, open, notification handle again.
C30_Witness ==
    /\ pc = "poll"
    /\ unmount_seen
    /\ fd \in open_fds
    /\ rm_calls = {}

\* C31: the occupancy of the process table is consistent.  In every slot but
\* slot 0 the pid, the pipe descriptor and the watch index are all set or all
\* -1; no two slots track the same pid; a tracked pid has not been reaped yet,
\* and the slots the loop of line 900 is still to wait on are tracked (so
\* waitpid is never called on a pid that was reaped before); every open pipe
\* descriptor is the descriptor of a tracked slot (none of a freed slot stays
\* open).
C31_TableConsistent ==
    /\ \A i \in ProcSlots :
          \/ PT[i].pid = -1 /\ PT[i].fd = -1 /\ PT[i].watchid = -1
          \/ PT[i].pid # -1 /\ PT[i].fd # -1 /\ PT[i].watchid # -1
    /\ \A i, j \in ProcSlots : (PT[i].pid # -1 /\ PT[i].pid = PT[j].pid) => i = j
    /\ \A i \in ProcSlots : PT[i].pid # -1 => child[PT[i].pid] # "none"
    /\ pc = "reap" => \A i \in ProcSlots : (i >= ri /\ i \in revents) => PT[i].pid # -1
    /\ pc # "exited" =>
          \A d \in open_fds \ {fd} : \E i \in ProcSlots : PT[i].pid # -1 /\ PT[i].fd = d

\* A companion was reaped and its slot is free with its pipe closed, while
\* another companion is tracked with its pipe open.
C31_Witness ==
    /\ reaped # {}
    /\ \E i, j \in ProcSlots :
          /\ PT[i].pid = -1
          /\ PipeFd(NewPid(i)) \notin open_fds
          /\ child[NewPid(i)] = "none"
          /\ PT[j].pid # -1
          /\ PT[j].fd \in open_fds

\* The daemon is between two inner loops: at the end of the batch that ends a
\* generation, or in inotify_init1, the mount check, the mount wait or the
\* registration pass that start the next one.
GenerationChange ==
    \/ pc = "event" /\ buf = <<>> /\ destroyed_wd
    \/ pc \in {"inotify_init", "mount_check", "mw_open", "mw_poll", "register"}

\* C32: ending a generation and starting the next one leaves slots
\* 1..WATCH_MAX-1 of the process table unchanged.  No step between two inner
\* loops writes such a slot, touches a tracked companion or closes its pipe;
\* in any generation a slot is given up only by a reap of its companion (the
\* loop over the signalled pipes or the WNOHANG sweep), and an IN_CLOSE for a
\* watch with a tracked companion forks nothing.
C32_TableSurvivesGenerations ==
    [][ /\ GenerationChange =>
              \A i \in ProcSlots :
                 /\ PT'[i] = PT[i]
                 /\ PT[i].pid # -1 =>
                       /\ child'[PT[i].pid] = child[PT[i].pid]
                       /\ PT[i].fd \in open_fds
                       /\ pc' # "exited" => PT[i].fd \in open_fds'
        /\ \A i \in ProcSlots :
              (PT[i].pid # -1 /\ PT'[i] # PT[i]) =>
                 /\ pc = "reap"
                 /\ PT'[i].pid = -1
                 /\ child'[PT[i].pid] = "none"
        /\ (Decoding /\ \E i \in ProcSlots : PT[i].pid # -1 /\ PT[i].watchid = CurIdx) =>
              ~Forked ]_vars

\* The registration pass of a new generation is about to run, and a companion
\* of an earlier generation (no event of this one has been read yet) is
\* tracked for one of the watches, alive, with its pipe open.
C32_Witness ==
    /\ pc = "register"
    /\ \E i \in ProcSlots :
          /\ PT[i].pid # -1
          /\ PT[i].watchid \in Watches
          /\ child[PT[i].pid] = "run"
          /\ PT[i].fd \in open_fds

\* C33: the reply guarantee of the IPC client.  Once the client has sent a
\* command it does not leave main before the reply to it was read and
\* printed, unless the daemon closed the connection: when main has ended,
\* every command sent had its reply printed or the connection was closed by
\* the daemon.  (The abnormal end of a client whose read overran its buffer
\* is left aside here.)
C33_ReplyBeforeExit ==
    (cl_pc = "exited" /\ cl_rc # "SIGSEGV" /\ owed > 0) => sock_hup

\* C34: the packet bounds of the IPC client.  Whatever is pending on stdin,
\* read_in_full stores at most PIPE_BUF bytes in buf, and the packet handed to
\* send_in_full has between 1 and PIPE_BUF bytes, ends with a NUL and has no
\* line feed in front of that NUL.
C34_PacketBounds ==
    /\ stored <= PIPE_BUF
    /\ packet # <<>> =>
          /\ Len(packet) \in 1..PIPE_BUF
          /\ packet[Len(packet)] = NUL
          /\ Len(packet) > 1 => packet[Len(packet) - 1] # LF

====
